---- MODULE Spec2Model ----
(***************************************************************************)
(* State-machine model of osv-scraper: the relational store, the fetch     *)
(* driver (cursor, sitemap, batches, tombstones, retention prune) and the  *)
(* report driver (differential query and snapshot).                        *)
(*                                                                         *)
(* Time.  A Go time.Time is a record [t, z]: t is the instant, counted in  *)
(* ticks (TicksPerSec ticks make one second), z is the zone it is          *)
(* displayed in.  An RFC3339 string is a record [w, z]: w stands for the   *)
(* nineteen characters "YYYY-MM-DDTHH:MM:SS" (the wall clock in whole      *)
(* seconds, fixed width, so its text order is its numeric order) and z for *)
(* the zone suffix.  One model second also stands for the offset of the    *)
(* two non-UTC zones and for one retention day.                            *)
(***************************************************************************)
EXTENDS Integers, Sequences, FiniteSets, TLC

\* ------------------------------------------------------------------ bounds
\* Instants handed to the program lie in 0..MaxTime (ticks).
MaxTime == 4
\* Sub-second resolution of an instant.
TicksPerSec == 2
\* Longest sitemap document (number of <url> elements).
MaxUrls == 2

\* ----------------------------------------------------------- value domains
Ids == {"GHSA-A", "GHSA-B"}
Ecosystems == {"npm", "Go"}
Packages == {"pkg"}
Zones == {"Z", "+01:00", "-01:00"}

Offset(z) == CASE z = "+01:00" -> TicksPerSec
               [] z = "-01:00" -> 0 - TicksPerSec
               [] OTHER -> 0

\* time.Time{}: the zero instant lies before every other instant.
ZeroTime == [t |-> 0 - 1000 * TicksPerSec, z |-> "Z"]

IsZero(tm) == tm.t = ZeroTime.t

\* A comparison that also holds for equal instants.
NotBefore(a, b) == a.t >= b.t

\* time.Time.After
After(a, b) == a.t > b.t

FloorSec(x) == x - (x % TicksPerSec)

\* Time.Format(time.RFC3339): whole seconds of the wall clock of the value's
\* own zone, then the zone suffix; the fraction of a second is dropped.
Format(tm) == [w |-> FloorSec(tm.t) + Offset(tm.z), z |-> tm.z]

\* time.Parse(time.RFC3339, s): the instant the string denotes, zone kept.
Parse(s) == [t |-> s.w - Offset(s.z), z |-> s.z]

\* The empty string, as a value of a TEXT column or a Go string holding a time.
EmptyText == [w |-> 0, z |-> ""]

\* Order of the first character of the zone suffix: "" < "+.." < "-.." < "Z".
SuffixRank(z) == CASE z = "" -> 0
                   [] z = "+01:00" -> 1
                   [] z = "-01:00" -> 2
                   [] OTHER -> 3

\* SQLite's comparison of two TEXT values (BINARY collation: bytewise).
TextLess(a, b) ==
    IF a.z = "" \/ b.z = ""
    THEN a.z = "" /\ b.z # ""
    ELSE a.w < b.w \/ (a.w = b.w /\ SuffixRank(a.z) < SuffixRank(b.z))

\* SQL NULL in a nullable TEXT column.
NullText == "<NULL>"

\* sql.NullFloat64; scores are counted in tenths.
NullFloat == [Valid |-> FALSE, Float64 |-> 0]
SomeFloat(x) == [Valid |-> TRUE, Float64 |-> x]

\* toNullFloat64 / toNullString: the value bound to a nullable column.
toNullFloat64(value) == IF value.Valid THEN value ELSE NullFloat
toNullString(value) == IF value # "" THEN value ELSE NullText

\* ------------------------------------------------------------------- state
VARIABLES
    vulnerability,      \* table vulnerability: id -> row, or NoRow
    affected,           \* table affected: set of [vuln_id, ecosystem, package]
    tombstone,          \* table tombstone: set of ids
    source_cursor,      \* table source_cursor: source -> RFC3339 text, or NoCursor
    reported_snapshot,  \* table reported_snapshot: set of rows, one per key
    local,              \* time.Local of the process
    now,                \* the clock (instant, in ticks)
    last,               \* the store call that returned last, for postconditions
    run,                \* app.Fetch and the processEcosystem call it is in
    env                 \* cfg.BatchSize, and what the upstream servers can answer

storeVars == <<vulnerability, affected, tombstone, source_cursor, reported_snapshot>>
vars == <<vulnerability, affected, tombstone, source_cursor, reported_snapshot,
          local, now, last, run, env>>

NoRow == [present |-> FALSE]
NoCursor == EmptyText

\* ------------------------------------------------------- store operations
\* Each operator is the effect of one successful SQL statement on its table.

\* INSERT INTO vulnerability ... ON CONFLICT(id) DO NOTHING
SaveVulnerabilityIfAbsent(tbl, v) ==
    IF tbl[v.ID].present
    THEN tbl
    ELSE [tbl EXCEPT ![v.ID] =
            [present |-> TRUE,
             modified |-> Format(v.Modified),
             published |-> IF IsZero(v.Published) THEN EmptyText ELSE Format(v.Published),
             severity_base_score |-> toNullFloat64(v.SeverityBaseScore),
             severity_vector |-> toNullString(v.SeverityVector)]]

\* INSERT INTO vulnerability ... ON CONFLICT(id) DO UPDATE SET <every column>
SaveVulnerability(tbl, v) ==
    [tbl EXCEPT ![v.ID] =
        [present |-> TRUE,
         modified |-> Format(v.Modified),
         published |-> IF IsZero(v.Published) THEN EmptyText ELSE Format(v.Published),
         severity_base_score |-> toNullFloat64(v.SeverityBaseScore),
         severity_vector |-> toNullString(v.SeverityVector)]]

\* INSERT INTO affected ... ON CONFLICT DO NOTHING.  The declared foreign key
\* is not enforced: the connection never sets PRAGMA foreign_keys.
SaveAffected(tbl, a) == tbl \cup {a}

\* INSERT INTO tombstone (id) ... ON CONFLICT(id) DO NOTHING
SaveTombstone(tbl, id) == tbl \cup {id}

\* INSERT INTO source_cursor ... ON CONFLICT(source) DO UPDATE SET cursor
SaveCursor(tbl, source, cursor) == [tbl EXCEPT ![source] = Format(cursor)]

\* SELECT cursor FROM source_cursor WHERE source = ?, then time.Parse
GetCursor(tbl, source) == Parse(tbl[source])

\* SELECT id FROM vulnerability WHERE modified < ?   (a comparison of TEXT)
OlderThan(vtbl, cutoff) ==
    {id \in DOMAIN vtbl : vtbl[id].present /\ TextLess(vtbl[id].modified, Format(cutoff))}

\* DELETE FROM affected WHERE vuln_id IN (SELECT id ... WHERE modified < ?)
DeleteOldAffected(atbl, vtbl, cutoff) ==
    {a \in atbl : a.vuln_id \notin OlderThan(vtbl, cutoff)}

\* DELETE FROM vulnerability WHERE modified < ?
DeleteOldVulnerability(vtbl, cutoff) ==
    [id \in DOMAIN vtbl |-> IF id \in OlderThan(vtbl, cutoff) THEN NoRow ELSE vtbl[id]]

\* One row of the report query, as scanned into VulnerabilityReportEntry.
\* COALESCE(v.published, '') and COALESCE(v.severity_vector, '') are applied.
ReportEntry(v, a) ==
    [ID |-> a.vuln_id, Ecosystem |-> a.ecosystem, Package |-> a.package,
     Published |-> v.published, Modified |-> v.modified,
     SeverityBaseScore |-> v.severity_base_score,
     SeverityVector |-> IF v.severity_vector = NullText THEN "" ELSE v.severity_vector]

\* vulnerability INNER JOIN affected [WHERE a.ecosystem = ?].  The result is
\* kept as a set: the ORDER BY of the query is not part of the model.
GetVulnerabilitiesForReport(vtbl, atbl, ecosystem) ==
    {ReportEntry(vtbl[a.vuln_id], a) :
        a \in {x \in atbl : /\ vtbl[x.vuln_id].present
                            /\ (ecosystem = "" \/ x.ecosystem = ecosystem)}}

\* A COALESCE of the score with a sentinel no score is compared equal to.
CoalesceScoreApart(f) == IF f.Valid THEN f.Float64 ELSE 0 - 1000

\* COALESCE(severity_base_score, -1) and COALESCE(severity_vector, '').  Scores
\* are counted in tenths, so the sentinel -1 is -10.
CoalesceScore(f) == IF f.Valid THEN f.Float64 ELSE 0 - 10
CoalesceVector(s) == IF s = NullText THEN "" ELSE s

\* A WHERE clause that does not compare modified.
UnreportedIgnoringModified(v, a, snap) ==
    LET match == {r \in snap : /\ r.id = a.vuln_id
                               /\ r.ecosystem = a.ecosystem
                               /\ r.package = a.package}
    IN  \/ match = {}
        \/ \E r \in match :
              \/ CoalesceScore(r.severity_base_score) # CoalesceScore(v.severity_base_score)
              \/ CoalesceVector(r.severity_vector) # CoalesceVector(v.severity_vector)

\* The WHERE clause over the LEFT JOIN with reported_snapshot: the rows r of
\* the snapshot with the key of (v, a) either do not exist or differ.
Unreported(v, a, snap) ==
    LET match == {r \in snap : /\ r.id = a.vuln_id
                               /\ r.ecosystem = a.ecosystem
                               /\ r.package = a.package}
    IN  \/ match = {}
        \/ \E r \in match :
              \/ r.modified # v.modified
              \/ CoalesceScore(r.severity_base_score) # CoalesceScore(v.severity_base_score)
              \/ CoalesceVector(r.severity_vector) # CoalesceVector(v.severity_vector)

GetUnreportedVulnerabilities(vtbl, atbl, snap, ecosystem) ==
    {ReportEntry(vtbl[a.vuln_id], a) :
        a \in {x \in atbl : /\ vtbl[x.vuln_id].present
                            /\ Unreported(vtbl[x.vuln_id], x, snap)
                            /\ (ecosystem = "" \/ x.ecosystem = ecosystem)}}

\* DELETE FROM reported_snapshot, then one INSERT per entry, in one transaction.
SnapshotRow(e) ==
    [id |-> e.ID, ecosystem |-> e.Ecosystem, package |-> e.Package,
     published |-> e.Published, modified |-> e.Modified,
     severity_base_score |-> toNullFloat64(e.SeverityBaseScore),
     severity_vector |-> toNullString(e.SeverityVector)]

\* A snapshot that is cleared and not filled again.
SnapshotCleared(entries) == {}

SaveReportSnapshot(entries) == {SnapshotRow(e) : e \in entries}

\* --------------------------------------------------------- input domains
Utc(x) == [t |-> x, z |-> "Z"]
Instants == 0..MaxTime
Sources == <<"npm">>

\* cfg.RetentionDays, cfg.MaxConcurrency and the largest cfg.BatchSize a
\* Fetch is started with.
RetentionDays == 1
MaxConcurrency == 2
MaxBatchSize == 2

\* The sitemap carries any id with any lastmod; the API answers with a record
\* of one affected package.
CursorProfile(bs) ==
    [name |-> "cursor", sources |-> Sources,
     batchSize |-> bs, ids |-> {"GHSA-A"}, lastmods |-> {Utc(x) : x \in Instants},
     apiModified |-> {Utc(MaxTime)},
     apiAffected |-> {<<[Ecosystem |-> "npm", Name |-> "pkg"]>>},
     apiSeverity |-> {<<>>}]

\* One id, listed with a lastmod of the last two seconds; the API answers with
\* an old or a recent record, with or without an affected package.
EntryProfile(bs) ==
    [name |-> "entry", sources |-> Sources,
     batchSize |-> bs, ids |-> {"GHSA-A"},
     lastmods |-> {Utc(MaxTime - TicksPerSec), Utc(MaxTime)},
     apiModified |-> {Utc(0), Utc(MaxTime)},
     apiAffected |-> {<<>>, <<[Ecosystem |-> "npm", Name |-> "pkg"]>>},
     apiSeverity |-> {<<>>}]

\* cfg.Ecosystems holds two ecosystems; each sitemap lists one id with the
\* newest lastmod, and the API answers with a record of one affected package.
EcosystemsProfile ==
    [name |-> "ecosystems", sources |-> <<"npm", "Go">>,
     batchSize |-> 1, ids |-> {"GHSA-A"}, lastmods |-> {Utc(MaxTime)},
     apiModified |-> {Utc(MaxTime)},
     apiAffected |-> {<<[Ecosystem |-> "npm", Name |-> "pkg"]>>},
     apiSeverity |-> {<<>>}]

\* The scraper is called directly, with n as maxConcurrency: one id, listed once
\* or twice; the API answers with any status.
ClientProfile(n) ==
    [name |-> "client", concurrency |-> n,
     batchSize |-> MaxUrls, ids |-> {"GHSA-A"}, lastmods |-> {Utc(MaxTime)},
     apiModified |-> {Utc(MaxTime)},
     apiAffected |-> {<<[Ecosystem |-> "npm", Name |-> "pkg"]>>},
     apiSeverity |-> {<<>>}]

\* No Fetch runs: the store is written by its callers and read by reports.
ReportProfile ==
    [name |-> "report",
     batchSize |-> 1, ids |-> {}, lastmods |-> {}, apiModified |-> {}, apiAffected |-> {}]

AffectedKeys == [vuln_id : Ids, ecosystem : Ecosystems, package : Packages]

EmptyStore ==
    /\ vulnerability = [id \in Ids |-> NoRow]
    /\ affected = {}
    /\ tombstone = {}
    /\ source_cursor = [s \in Ecosystems |-> NoCursor]
    /\ reported_snapshot = {}

\* No Fetch is running.
IdleRun ==
    [pc |-> "idle", idx |-> 0, batchSize |-> 0, lastErr |-> FALSE,
     cutoff |-> ZeroTime, lastCursor |-> ZeroTime, cursor0 |-> NoCursor, tomb0 |-> {},
     entries |-> <<>>, i |-> 0, tasks |-> <<>>, cancelled |-> FALSE,
     failedEarly |-> FALSE, err |-> ""]

NoCall == [op |-> "none", ok |-> TRUE, cutoff |-> ZeroTime, deleted |-> {}]

\* ------------------------------------------- the store, called directly
\* Any caller of the store package: every exported write, with any argument,
\* in any order.  A call that fails (the statement or the transaction returns
\* an error) leaves the tables as they were.

\* Values a caller holds, in UTC or in its own zone: the first two seconds,
\* whole (a record's modified) or with a fraction (a cutoff taken from the clock).
CallerSeconds == {[t |-> x, z |-> zz] : x \in {0, TicksPerSec}, zz \in {"Z", local}}
CallerTimes == {[t |-> x, z |-> zz] : x \in 0..(TicksPerSec + 1), zz \in {"Z", local}}

\* The records a caller saves.  Before a report they differ in what the
\* differential query compares: GHSA-A comes in an older and a newer version,
\* without a score, with the score -1 and with a computed score; GHSA-B is
\* always the same.
CallerVulns ==
    IF env.name \in {"report", "tx"}
    THEN {[ID |-> "GHSA-A", Modified |-> Utc(0), Published |-> ZeroTime,
           SeverityBaseScore |-> NullFloat, SeverityVector |-> ""],
          [ID |-> "GHSA-A", Modified |-> Utc(TicksPerSec), Published |-> ZeroTime,
           SeverityBaseScore |-> NullFloat, SeverityVector |-> ""],
          [ID |-> "GHSA-A", Modified |-> Utc(0), Published |-> ZeroTime,
           SeverityBaseScore |-> SomeFloat(0 - 10), SeverityVector |-> ""],
          [ID |-> "GHSA-A", Modified |-> Utc(0), Published |-> ZeroTime,
           SeverityBaseScore |-> SomeFloat(98), SeverityVector |-> "CVSS:3.1/AV:N/AC:L/PR:N/UI:N/S:U/C:H/I:H/A:H"],
          [ID |-> "GHSA-B", Modified |-> Utc(0), Published |-> ZeroTime,
           SeverityBaseScore |-> NullFloat, SeverityVector |-> ""]}
    ELSE {[ID |-> id, Modified |-> m, Published |-> ZeroTime,
           SeverityBaseScore |-> NullFloat, SeverityVector |-> ""] :
             id \in Ids, m \in CallerSeconds}

CallSaveVulnerability ==
    \E v \in CallerVulns, ok \in BOOLEAN :
        /\ vulnerability' = IF ok THEN SaveVulnerability(vulnerability, v) ELSE vulnerability
        /\ last' = NoCall
        /\ UNCHANGED <<affected, tombstone, source_cursor, reported_snapshot, local, now, run, env>>

CallSaveAffected ==
    \E a \in AffectedKeys, ok \in BOOLEAN :
        /\ affected' = IF ok THEN SaveAffected(affected, a) ELSE affected
        /\ last' = NoCall
        /\ UNCHANGED <<vulnerability, tombstone, source_cursor, reported_snapshot, local, now, run, env>>

CallSaveTombstone ==
    \E id \in {"GHSA-A"}, ok \in BOOLEAN :
        /\ tombstone' = IF ok THEN SaveTombstone(tombstone, id) ELSE tombstone
        /\ last' = NoCall
        /\ UNCHANGED <<vulnerability, affected, source_cursor, reported_snapshot, local, now, run, env>>

CallSaveCursor ==
    \E i \in 1..Len(Sources), x \in {MaxTime}, ok \in BOOLEAN :
        /\ source_cursor' =
              IF ok THEN SaveCursor(source_cursor, Sources[i], Utc(x)) ELSE source_cursor
        /\ last' = NoCall
        /\ UNCHANGED <<vulnerability, affected, tombstone, reported_snapshot, local, now, run, env>>

\* BeginTx; DELETE affected; DELETE vulnerability; Commit.  An error at any of
\* the four steps returns through the deferred Rollback.
CallDeleteVulnerabilitiesOlderThan ==
    \E cutoff \in CallerTimes, ok \in BOOLEAN :
        /\ affected' =
              IF ok THEN DeleteOldAffected(affected, vulnerability, cutoff) ELSE affected
        /\ vulnerability' =
              IF ok THEN DeleteOldVulnerability(vulnerability, cutoff) ELSE vulnerability
        /\ last' = [op |-> "DeleteVulnerabilitiesOlderThan", ok |-> ok, cutoff |-> cutoff,
                    deleted |-> IF ok THEN OlderThan(vulnerability, cutoff) ELSE {}]
        /\ UNCHANGED <<tombstone, source_cursor, reported_snapshot, local, now, run, env>>

StoreInit ==
    /\ EmptyStore
    /\ local \in Zones
    /\ now = 0
    /\ last = NoCall
    /\ run = IdleRun
    /\ env = CursorProfile(1)

StoreNext ==
    \/ CallSaveVulnerability
    \/ CallSaveAffected
    \/ CallSaveTombstone
    \/ CallSaveCursor
    \/ CallDeleteVulnerabilitiesOlderThan

SpecStore == StoreInit /\ [][StoreNext]_vars

\* ------------------------------------------------------- the fetch driver
DayTicks == TicksPerSec

Min(a, b) == IF a < b THEN a ELSE b

\* One <url> of the sitemap: id is the regexp's capture in <loc> ("" when the
\* pattern does not match), valid says whether <lastmod> parses as RFC3339.
Urls == [id : env.ids \cup {""}, lastmod : env.lastmods, valid : BOOLEAN]

Documents == UNION {[1..n -> Urls] : n \in 0..MaxUrls}

\* parseSitemap without its cursor filter.
KeepUrlAnyLastmod(u, cursor) ==
    /\ u.valid
    /\ u.id # ""

\* The body of the loop of parseSitemap: the three `continue`s.
KeepUrl(u, cursor) ==
    /\ u.valid
    /\ ~(~IsZero(cursor) /\ ~After(u.lastmod, cursor))
    /\ u.id # ""

RECURSIVE parseSitemap(_, _)
parseSitemap(urls, cursor) ==
    IF urls = <<>> THEN <<>>
    ELSE LET u == Head(urls)
             rest == parseSitemap(Tail(urls), cursor)
         IN  IF KeepUrl(u, cursor)
             THEN <<[ID |-> u.id, Modified |-> u.lastmod]>> \o rest
             ELSE rest

\* A filter that keeps every entry.
AnyEntry(e, cursor) == TRUE

\* `if e.Modified.After(cursor)`
NewerThan(e, cursor) == After(e.Modified, cursor)

RECURSIVE FilterByCursor(_, _)
FilterByCursor(entries, cursor) ==
    IF entries = <<>> THEN <<>>
    ELSE LET e == Head(entries)
             rest == FilterByCursor(Tail(entries), cursor)
         IN  IF NewerThan(e, cursor) THEN <<e>> \o rest ELSE rest

\* What the API can answer with status 200 to GET /v1/vulns/{id}.
ApiVulns(id) ==
    {vuln \in [ID : {id}, Modified : env.apiModified, Published : {ZeroTime},
               Affected : env.apiAffected, Severity : env.apiSeverity] :
        env.name = "pool" => vuln.Affected = env.api[id].affected}

CvssCritical == "CVSS:3.1/AV:N/AC:L/PR:N/UI:N/S:U/C:H/I:H/A:H"
CvssChanged == "CVSS:3.1/AV:N/AC:L/PR:N/UI:N/S:C/C:H/I:H/A:H"
CvssNoImpact == "CVSS:3.0/AV:P/AC:H/PR:H/UI:R/S:U/C:N/I:N/A:N"
CvssLow == "CVSS:3.1/AV:P/AC:H/PR:H/UI:R/S:C/C:L/I:N/A:N"
CvssBadMetric == "CVSS:3.1/AV:X/AC:L/PR:N/UI:N/S:U/C:H/I:H/A:H"
CvssTruncated == "CVSS:3.1/AV:N/AC:L"
CvssOnlyPrefix == "CVSS:3.1"
Cvss4 == "CVSS:4.0/AV:N/AC:L/AT:N/PR:N/UI:N/VC:H/VI:H/VA:H/SC:N/SI:N/SA:N"
Cvss4Padded == " CVSS:4.0/AV:N/AC:L/AT:N/PR:N/UI:N/VC:H/VI:H/VA:H/SC:N/SI:N/SA:N "

\* The score strings of the model: CVSS v3 vectors that are complete, have an
\* invalid metric or lack metrics, a CVSS v4 vector with and without
\* surrounding blanks, bare numbers, and blank strings.
ScoreTexts ==
    {"", " ", CvssCritical, CvssChanged, CvssNoImpact, CvssLow, CvssBadMetric,
     CvssTruncated, CvssOnlyPrefix, Cvss4, Cvss4Padded,
     "7.5", " 7.5 ", "0", "10", "11", "-1", "high"}

\* strings.TrimSpace
TrimSpace(text) ==
    CASE text = " " -> ""
      [] text = " 7.5 " -> "7.5"
      [] text = Cvss4Padded -> Cvss4
      [] OTHER -> text

\* strings.HasPrefix(vector, "CVSS:3.")
HasPrefixCvss3(text) ==
    text \in {CvssCritical, CvssChanged, CvssNoImpact, CvssLow, CvssBadMetric,
              CvssTruncated, CvssOnlyPrefix}

\* strings.Split(vector, "/"): the number of parts.
Parts(text) ==
    CASE text = CvssOnlyPrefix -> 1
      [] text = CvssTruncated -> 3
      [] OTHER -> 9

\* The metrics map built from parts[1:].
Metrics(text) ==
    CASE text = CvssCritical ->
            [AV |-> "N", AC |-> "L", PR |-> "N", UI |-> "N", S |-> "U",
             C |-> "H", I |-> "H", A |-> "H"]
      [] text = CvssChanged ->
            [AV |-> "N", AC |-> "L", PR |-> "N", UI |-> "N", S |-> "C",
             C |-> "H", I |-> "H", A |-> "H"]
      [] text = CvssNoImpact ->
            [AV |-> "P", AC |-> "H", PR |-> "H", UI |-> "R", S |-> "U",
             C |-> "N", I |-> "N", A |-> "N"]
      [] text = CvssLow ->
            [AV |-> "P", AC |-> "H", PR |-> "H", UI |-> "R", S |-> "C",
             C |-> "L", I |-> "N", A |-> "N"]
      [] text = CvssBadMetric ->
            [AV |-> "X", AC |-> "L", PR |-> "N", UI |-> "N", S |-> "U",
             C |-> "H", I |-> "H", A |-> "H"]
      [] text = CvssTruncated -> [AV |-> "N", AC |-> "L"]
      [] OTHER -> <<>>

\* strconv.ParseFloat(vector, 64), the value in tenths.
ParseFloat(text) ==
    CASE text = "7.5" -> [ok |-> TRUE, base |-> 75]
      [] text = "0" -> [ok |-> TRUE, base |-> 0]
      [] text = "10" -> [ok |-> TRUE, base |-> 100]
      [] text = "11" -> [ok |-> TRUE, base |-> 110]
      [] text = "-1" -> [ok |-> TRUE, base |-> -10]
      [] OTHER -> [ok |-> FALSE, base |-> 0]

\* The weight tables of computeCVSS3BaseScore, in hundredths.
avWeights == [N |-> 85, A |-> 62, L |-> 55, P |-> 20]
acWeights == [L |-> 77, H |-> 44]
uiWeights == [N |-> 85, R |-> 62]
ciaWeights == [N |-> 0, L |-> 22, H |-> 56]
prWeightsUnchanged == [N |-> 85, L |-> 62, H |-> 27]
prWeightsChanged == [N |-> 85, L |-> 68, H |-> 50]
RequiredMetrics == {"AV", "AC", "PR", "UI", "S", "C", "I", "A"}

\* math.Pow(x, n) on numbers with four decimals.
RECURSIVE PowFixed(_, _)
PowFixed(x, n) == IF n = 1 THEN x ELSE (PowFixed(x, n - 1) * x) \div 10000

\* math.Ceil(val*10) / 10, from a value with four decimals to tenths.
roundUp1Decimal(val) == (val + 999) \div 1000

Max(x, y) == IF x > y THEN x ELSE y

\* An error where the code returns one, else the base score in tenths.  The
\* float64 arithmetic is done in fixed point with four to eight decimals.
computeCVSS3BaseScore(text) ==
    LET m == Metrics(text)
        failed == [ok |-> FALSE, base |-> 0]
        scopeChanged == m.S = "C"
        prWeights == IF scopeChanged THEN prWeightsChanged ELSE prWeightsUnchanged
    IN  IF Parts(text) < 2 \/ ~HasPrefixCvss3(text) THEN failed
        ELSE IF \E key \in RequiredMetrics : key \notin DOMAIN m THEN failed
        ELSE IF \/ m.AV \notin DOMAIN avWeights
                \/ m.AC \notin DOMAIN acWeights
                \/ m.PR \notin DOMAIN prWeights
                \/ m.UI \notin DOMAIN uiWeights
                \/ m.C \notin DOMAIN ciaWeights
                \/ m.I \notin DOMAIN ciaWeights
                \/ m.A \notin DOMAIN ciaWeights
        THEN failed
        ELSE LET av == avWeights[m.AV]
                 ac == acWeights[m.AC]
                 pr == prWeights[m.PR]
                 ui == uiWeights[m.UI]
                 exploitability == (822 * ((av * ac * pr * ui) \div 1000)) \div 1000
                 impactSubscore ==
                     1000000 - (100 - ciaWeights[m.C]) * (100 - ciaWeights[m.I])
                                                       * (100 - ciaWeights[m.A])
                 iss == impactSubscore \div 100
                 impactChanged ==
                     Max(752 * (iss - 290) - 325 * PowFixed(iss - 200, 15), 0) \div 100
                 impactUnchanged == (642 * impactSubscore) \div 10000
             IN  IF impactSubscore <= 0 THEN [ok |-> TRUE, base |-> 0]
                 ELSE IF scopeChanged
                 THEN [ok |-> TRUE,
                       base |-> roundUp1Decimal(
                                   Min((108 * (impactChanged + exploitability)) \div 100,
                                       100000))]
                 ELSE [ok |-> TRUE,
                       base |-> roundUp1Decimal(Min(impactUnchanged + exploitability,
                                                    100000))]

\* severity.ParseVector, the score in tenths.
ParseVector(vector) ==
    IF HasPrefixCvss3(vector) THEN computeCVSS3BaseScore(vector) ELSE ParseFloat(vector)

\* An ExtractFromOSV that hands on the score string as it came.
Untrimmed(text) == text

\* `vector := strings.TrimSpace(severities[0].Score)`
TrimmedVector(text) == TrimSpace(text)

\* severity.ExtractFromOSV: only the first element counts.  err stands for the
\* error returned with the vector when parsing fails.
ExtractFromOSV(severities) ==
    IF Len(severities) = 0 \/ TrimmedVector(severities[1].Score) = ""
    THEN [base |-> NullFloat, vector |-> "", err |-> FALSE]
    ELSE LET vector == TrimmedVector(severities[1].Score)
             parsed == ParseVector(vector)
         IN  [base |-> IF parsed.ok THEN SomeFloat(parsed.base) ELSE NullFloat,
              vector |-> vector, err |-> ~parsed.ok]

\* storeAdapter.SaveVulnerability
AdapterSaveVulnerability(tbl, vuln) ==
    LET sev == ExtractFromOSV(vuln.Severity)
    IN  SaveVulnerability(tbl,
            [ID |-> vuln.ID, Modified |-> vuln.Modified, Published |-> vuln.Published,
             SeverityBaseScore |-> sev.base, SeverityVector |-> sev.vector])

Source(r) == env.sources[r.idx]

\* retentionFiltered[i:end] of the batch loop, and the tasks errgroup starts for it.
BatchEnd(r) == Min(r.i + r.batchSize, Len(r.entries))
Batch(r) == SubSeq(r.entries, r.i + 1, BatchEnd(r))
NewTasks(entries, i, batchSize) ==
    [k \in 1..(Min(i + batchSize, Len(entries)) - i) |-> [pc |-> "ready", todo |-> <<>>]]

\* Goroutines that share the loop variable and run after the loop has ended.
SharedLoopVariable(r, k) == r.entries[Len(r.entries)]

\* `entry := entry // capture loop variable`
TaskEntry(r, k) == r.entries[r.i + k]

\* Tasks holding a slot of the semaphore: between `sem <- struct{}{}` and the
\* deferred `<-sem`, that is inside processEntry.
InProcessEntry == {"limiter", "http", "backoff", "tomb", "save", "writing"}
Running(r) == {k \in DOMAIN r.tasks : r.tasks[k].pc \in InProcessEntry}

\* A Wait that returns as soon as one task has returned an error.
FinishedAtFirstError(r) ==
    \/ \E k \in DOMAIN r.tasks : r.tasks[k].pc = "failed"
    \/ \A k \in DOMAIN r.tasks : r.tasks[k].pc \in {"done", "tombstoned", "failed", "skipped"}

\* g.Wait(): every goroutine of the group has returned.
Finished(r) ==
    \A k \in DOMAIN r.tasks : r.tasks[k].pc \in {"done", "tombstoned", "failed", "skipped"}

\* A batch loop that drops the error of ProcessEntriesParallel.
BatchErrorDropped(r) == FALSE

\* `if err := scraper.ProcessEntriesParallel(...); err != nil`: the error of
\* g.Wait() is the first error of a task of the batch.
BatchFailed(r) == r.cancelled

\* Entries of this processEcosystem call for which GetVulnerability sent a request.
Requested(r) ==
    {r.entries[j].ID : j \in 1..Min(r.i, Len(r.entries))} \cup
    {TaskEntry(r, k).ID : k \in {x \in DOMAIN r.tasks : r.tasks[x].pc \in {"writing", "done", "tombstoned", "failed"}}}

\* app.Fetch up to its loop.
BeginFetch ==
    /\ run.pc = "idle"
    /\ run' = [IdleRun EXCEPT !.pc = "ecosystem", !.idx = 1, !.batchSize = env.batchSize]
    /\ UNCHANGED <<vulnerability, affected, tombstone, source_cursor, reported_snapshot,
                   now, local, last, env>>

\* The error of Store.GetCursor: sql.ErrNoRows itself when the source has no
\* row, a wrapped error when the query fails in the storage (ok is false).
ErrNoRows == "sql: no rows in result set"
GetCursorError(tbl, source, ok) ==
    IF ~ok THEN "get cursor"
    ELSE IF tbl[source] = NoCursor THEN ErrNoRows
    ELSE ""

\* A driver that starts from the beginning on any error of GetCursor.
AnyErrorIsFirstRun(err) == err # ""

\* `if err == sql.ErrNoRows { lastCursor = time.Time{} }`
IsFirstRun(err) == err = ErrNoRows

\* processEcosystem: time.Now() and st.GetCursor.
StartEcosystem ==
    /\ run.pc = "ecosystem"
    /\ \E n \in now..MaxTime, ok \in BOOLEAN :
          /\ now' = n
          /\ LET stored == source_cursor[Source(run)]
                 r == [run EXCEPT !.cutoff = [t |-> n - RetentionDays * DayTicks, z |-> local],
                                  !.cursor0 = stored,
                                  !.tomb0 = tombstone]
                 err == GetCursorError(source_cursor, Source(run), ok)
             IN  run' =
                    IF err # "" /\ ~IsFirstRun(err)
                    THEN [r EXCEPT !.pc = "return", !.err = "get cursor", !.failedEarly = TRUE]
                    ELSE [r EXCEPT !.pc = "sitemap",
                                   !.lastCursor = IF err # ""
                                                  THEN ZeroTime
                                                  ELSE GetCursor(source_cursor, Source(run))]
    /\ UNCHANGED <<vulnerability, affected, tombstone, source_cursor, reported_snapshot,
                   local, last, env>>

\* processEcosystem: sitemapFetcher.Fetch, osv.FilterByCursor and the early return.
FetchSitemap ==
    /\ run.pc = "sitemap"
    /\ \/ run' = [run EXCEPT !.pc = "return", !.err = "fetch sitemap", !.failedEarly = TRUE]
       \/ \E doc \in Documents :
             LET entries == parseSitemap(doc, run.lastCursor)
                 retentionFiltered == FilterByCursor(entries, run.cutoff)
             IN  run' =
                    IF Len(retentionFiltered) = 0
                    THEN [run EXCEPT !.pc = "return"]
                    ELSE [run EXCEPT !.pc = "batch", !.entries = retentionFiltered,
                                     !.tasks = NewTasks(retentionFiltered, 0, run.batchSize)]
    /\ UNCHANGED <<vulnerability, affected, tombstone, source_cursor, reported_snapshot,
                   now, local, last, env>>

TaskFails(r, k) ==
    [r EXCEPT !.tasks[k] = [pc |-> "failed", todo |-> <<>>],
              !.cancelled = TRUE, !.failedEarly = TRUE]

\* A processEntry that returns the NotFound of the API as its error.
TaskNotFoundFails(r, k) == TaskFails(r, k)

\* processEntry on ErrNotFound: `return s.store.SaveTombstone(ctx, entry.ID)`
\* returned nil, the task has succeeded.
TaskTombstoned(r, k) == [r EXCEPT !.tasks[k] = [pc |-> "tombstoned", todo |-> <<>>]]

\* cfg.MaxConcurrency, the capacity of the semaphore: as config.Load gives it,
\* or the number of slots the runs of the model have otherwise.
Concurrency == IF env.name = "config" THEN env.maxConcurrency ELSE MaxConcurrency

\* A processEntry that returns after SaveVulnerability.
NoAffectedToSave(vuln) == <<>>

\* `for _, affected := range vuln.Affected`
AffectedToSave(vuln) == vuln.Affected

\* A task of ProcessEntriesParallel: the semaphore, then processEntry up to
\* its first write (GetVulnerability, then SaveTombstone or SaveVulnerability).
\* Once the group's context is cancelled GetVulnerability fails in the
\* limiter's Wait and no request is sent.
ProcessEntry(k) ==
    /\ run.pc = "batch"
    /\ k \in DOMAIN run.tasks
    /\ run.tasks[k].pc = "ready"
    /\ Cardinality(Running(run)) < Concurrency
    /\ LET id == TaskEntry(run, k).ID
       IN  IF run.cancelled
           THEN /\ run' = [run EXCEPT !.tasks[k] = [pc |-> "skipped", todo |-> <<>>]]
                /\ UNCHANGED <<vulnerability, tombstone>>
           ELSE \/ \* 400, 429 after the retries, another status, network or decode error
                   /\ run' = TaskFails(run, k)
                   /\ UNCHANGED <<vulnerability, tombstone>>
                \/ \* 404, SaveTombstone
                   \E ok \in BOOLEAN :
                      /\ tombstone' = IF ok THEN SaveTombstone(tombstone, id) ELSE tombstone
                      /\ run' = IF ok
                                THEN TaskTombstoned(run, k)
                                ELSE TaskFails(run, k)
                      /\ UNCHANGED vulnerability
                \/ \* 200, SaveVulnerability
                   \E vuln \in ApiVulns(id), ok \in BOOLEAN :
                      /\ vulnerability' =
                            IF ok THEN AdapterSaveVulnerability(vulnerability, vuln)
                            ELSE vulnerability
                      /\ run' = IF ~ok THEN TaskFails(run, k)
                                ELSE IF AffectedToSave(vuln) = <<>>
                                THEN [run EXCEPT !.tasks[k] = [pc |-> "done", todo |-> <<>>]]
                                ELSE [run EXCEPT !.tasks[k] =
                                                    [pc |-> "writing",
                                                     todo |-> AffectedToSave(vuln)]]
                      /\ UNCHANGED tombstone
    /\ UNCHANGED <<affected, source_cursor, reported_snapshot, now, local, last, env>>

\* processEntry: one turn of the loop over vuln.Affected.
ProcessEntryAffected(k) ==
    /\ run.pc = "batch"
    /\ k \in DOMAIN run.tasks
    /\ run.tasks[k].pc = "writing"
    /\ LET a == Head(run.tasks[k].todo)
           rest == Tail(run.tasks[k].todo)
       IN  \E ok \in BOOLEAN :
              /\ affected' =
                    IF ok /\ ~run.cancelled
                    THEN SaveAffected(affected,
                            [vuln_id |-> TaskEntry(run, k).ID,
                             ecosystem |-> a.Ecosystem, package |-> a.Name])
                    ELSE affected
              /\ run' = IF ~ok \/ run.cancelled THEN TaskFails(run, k)
                        ELSE IF rest = <<>>
                        THEN [run EXCEPT !.tasks[k] = [pc |-> "done", todo |-> <<>>]]
                        ELSE [run EXCEPT !.tasks[k].todo = rest]
    /\ UNCHANGED <<vulnerability, tombstone, source_cursor, reported_snapshot,
                   now, local, last, env>>

\* g.Wait() returns, and the batch loop goes on.
WaitBatch ==
    /\ run.pc = "batch"
    /\ Finished(run)
    /\ run' =
          IF BatchFailed(run)
          THEN [run EXCEPT !.pc = "return", !.err = "process batch"]
          ELSE IF run.i + run.batchSize < Len(run.entries)
          THEN [run EXCEPT !.i = run.i + run.batchSize, !.cancelled = FALSE,
                           !.tasks = NewTasks(run.entries, run.i + run.batchSize,
                                              run.batchSize)]
          ELSE [run EXCEPT !.i = run.i + run.batchSize, !.cancelled = FALSE,
                           !.tasks = <<>>, !.pc = "saveCursor"]
    /\ UNCHANGED <<vulnerability, affected, tombstone, source_cursor, reported_snapshot,
                   now, local, last, env>>

\* latestModified := retentionFiltered[len(retentionFiltered)-1].Modified
LatestModified(entries) == entries[Len(entries)].Modified

\* processEcosystem: st.SaveCursor.
AdvanceCursor ==
    /\ run.pc = "saveCursor"
    /\ \E ok \in BOOLEAN :
          /\ source_cursor' =
                IF ok
                THEN SaveCursor(source_cursor, Source(run), LatestModified(run.entries))
                ELSE source_cursor
          /\ run' = IF ok THEN [run EXCEPT !.pc = "prune"]
                    ELSE [run EXCEPT !.pc = "return", !.err = "save cursor"]
    /\ UNCHANGED <<vulnerability, affected, tombstone, reported_snapshot, now, local, last, env>>

\* processEcosystem: st.DeleteVulnerabilitiesOlderThan.
Prune ==
    /\ run.pc = "prune"
    /\ \E ok \in BOOLEAN :
          /\ affected' =
                IF ok THEN DeleteOldAffected(affected, vulnerability, run.cutoff) ELSE affected
          /\ vulnerability' =
                IF ok THEN DeleteOldVulnerability(vulnerability, run.cutoff) ELSE vulnerability
          /\ run' = IF ok THEN [run EXCEPT !.pc = "return"]
                    ELSE [run EXCEPT !.pc = "return", !.err = "delete old vulnerabilities"]
    /\ UNCHANGED <<tombstone, source_cursor, reported_snapshot, now, local, last, env>>

\* A loop over cfg.Ecosystems that ends at the first ecosystem that failed.
MoreEcosystemsUnlessFailed(r) == r.err = "" /\ r.idx < Len(env.sources)

\* `for _, eco := range cfg.Ecosystems`, with `continue` after a failure.
MoreEcosystems(r) == r.idx < Len(env.sources)

\* `if lastErr != nil { return fmt.Errorf("some ecosystems failed to process: %w", lastErr) }`
FetchError(failed) == IF failed THEN "some ecosystems failed to process" ELSE ""

\* app.Fetch: processEcosystem has returned; the loop goes to the next
\* ecosystem, or Fetch returns its error.
ReturnEcosystem ==
    /\ run.pc = "return"
    /\ run' =
          IF MoreEcosystems(run)
          THEN [IdleRun EXCEPT !.pc = "ecosystem", !.idx = run.idx + 1,
                               !.batchSize = run.batchSize,
                               !.lastErr = (run.lastErr \/ run.err # "")]
          ELSE [IdleRun EXCEPT !.err = FetchError(run.lastErr \/ run.err # "")]
    /\ UNCHANGED <<vulnerability, affected, tombstone, source_cursor, reported_snapshot,
                   now, local, last, env>>

FetchInit ==
    /\ EmptyStore
    /\ local \in Zones
    /\ now = 0
    /\ last = NoCall
    /\ run = IdleRun
    /\ \E bs \in 1..MaxBatchSize : env = CursorProfile(bs)

EntryInit ==
    /\ EmptyStore
    /\ local \in Zones
    /\ now = 0
    /\ last = NoCall
    /\ run = IdleRun
    /\ \E bs \in 1..MaxBatchSize : env = EntryProfile(bs)

FetchNext ==
    \/ BeginFetch
    \/ StartEcosystem
    \/ FetchSitemap
    \/ \E k \in 1..MaxBatchSize : ProcessEntry(k)
    \/ \E k \in 1..MaxBatchSize : ProcessEntryAffected(k)
    \/ WaitBatch
    \/ AdvanceCursor
    \/ Prune
    \/ ReturnEcosystem

SpecFetch == FetchInit /\ [][FetchNext]_vars

SpecEntry == EntryInit /\ [][FetchNext]_vars

EcosystemsInit ==
    /\ EmptyStore
    /\ local = "Z"
    /\ now = 0
    /\ last = NoCall
    /\ run = IdleRun
    /\ env = EcosystemsProfile

SpecEcosystems == EcosystemsInit /\ [][FetchNext]_vars

\* ------------------------------------------- the transactions of the store
\* DeleteVulnerabilitiesOlderThan and SaveReportSnapshot, statement by
\* statement.  The store is written by one caller at a time: the other writes
\* happen between two calls.

TxProfile ==
    [name |-> "tx", sources |-> Sources,
     batchSize |-> 1, ids |-> {"GHSA-A"}, lastmods |-> {Utc(0)},
     apiModified |-> {Utc(0)}, apiAffected |-> {<<>>}]

\* The tables of a call: what the store held when it began.
Tables == [affected |-> affected, vulnerability |-> vulnerability,
           reported_snapshot |-> reported_snapshot, tombstone |-> tombstone]

IdleTx ==
    [pc |-> "idle", op |-> "none", cutoff |-> ZeroTime, entries |-> <<>>, todo |-> <<>>,
     txAffected |-> {}, txVulnerability |-> [id \in Ids |-> NoRow], txSnapshot |-> {},
     atCall |-> [affected |-> {}, vulnerability |-> [id \in Ids |-> NoRow],
                 reported_snapshot |-> {}, tombstone |-> {}],
     arg |-> "", fault |-> FALSE, err |-> ""]

\* The entries a report hands to SaveReportSnapshot: two versions of one key,
\* and another key.
SnapshotEntries ==
    {[ID |-> "GHSA-A", Ecosystem |-> "npm", Package |-> "pkg", Published |-> EmptyText,
      Modified |-> Format(Utc(m)), SeverityBaseScore |-> NullFloat, SeverityVector |-> ""] :
        m \in {0, TicksPerSec}}
    \cup
    {[ID |-> "GHSA-B", Ecosystem |-> "npm", Package |-> "pkg", Published |-> EmptyText,
      Modified |-> Format(Utc(0)), SeverityBaseScore |-> NullFloat, SeverityVector |-> ""]}

SnapshotArguments == UNION {[1..n -> SnapshotEntries] : n \in 0..2}

\* Statements run on the database outside of a transaction.
Autocommitted(tbl, txTbl) == txTbl

\* tx.ExecContext: what a statement of the transaction changes is not in the
\* table before the Commit.
Uncommitted(tbl, txTbl) == tbl

\* A call that keeps what its transaction did when it returns an error.
KeptOnError(tbl, txTbl) == txTbl

\* `defer tx.Rollback()`: the table after a return without Commit.
RolledBack(tbl, txTbl) == tbl

\* PRIMARY KEY (id, ecosystem, package) of reported_snapshot.
SnapshotConflict(tbl, row) ==
    \E r \in tbl : r.id = row.id /\ r.ecosystem = row.ecosystem /\ r.package = row.package

\* The call returns err through the deferred Rollback.
TxFails(err) ==
    /\ run' = [run EXCEPT !.pc = "returned", !.err = err]
    /\ affected' = RolledBack(affected, run.txAffected)
    /\ vulnerability' = RolledBack(vulnerability, run.txVulnerability)
    /\ reported_snapshot' = RolledBack(reported_snapshot, run.txSnapshot)

\* The other writes of the store, between two calls.
TxSaveVulnerability == run.pc = "idle" /\ CallSaveVulnerability

\* A plain INSERT: a key that exists violates the PRIMARY KEY.
ConstraintError(exists) == exists

\* ON CONFLICT ... DO NOTHING: a key that exists raises no error.
ConflictError(exists) == FALSE

\* SaveAffected, with its return value: ok is false when the statement fails
\* in the storage (I/O, a cancelled context).
TxSaveAffected ==
    /\ run.pc = "idle"
    /\ \E a \in AffectedKeys, ok \in BOOLEAN :
          LET failed == ~ok \/ ConflictError(a \in affected)
          IN  /\ affected' = IF failed THEN affected ELSE SaveAffected(affected, a)
              /\ run' = [IdleTx EXCEPT !.op = "SaveAffected", !.pc = "returned",
                                       !.atCall = Tables, !.arg = a, !.fault = ~ok,
                                       !.err = IF failed THEN "save affected" ELSE ""]
    /\ UNCHANGED <<vulnerability, tombstone, source_cursor, reported_snapshot,
                   now, local, last, env>>

\* SaveTombstone, with its return value.
TxSaveTombstone ==
    /\ run.pc = "idle"
    /\ \E id \in {"GHSA-A"}, ok \in BOOLEAN :
          LET failed == ~ok \/ ConflictError(id \in tombstone)
          IN  /\ tombstone' = IF failed THEN tombstone ELSE SaveTombstone(tombstone, id)
              /\ run' = [IdleTx EXCEPT !.op = "SaveTombstone", !.pc = "returned",
                                       !.atCall = Tables, !.arg = id, !.fault = ~ok,
                                       !.err = IF failed THEN "save tombstone" ELSE ""]
    /\ UNCHANGED <<vulnerability, affected, source_cursor, reported_snapshot,
                   now, local, last, env>>

\* The caller has read the error of the call and goes on.
TxReturned ==
    /\ run.pc = "returned"
    /\ run' = IdleTx
    /\ UNCHANGED <<vulnerability, affected, tombstone, source_cursor, reported_snapshot,
                   now, local, last, env>>

\* DeleteVulnerabilitiesOlderThan: s.db.BeginTx
BeginDelete ==
    /\ run.pc = "idle"
    /\ \E cutoff \in CallerTimes, ok \in BOOLEAN :
          run' = [IdleTx EXCEPT !.op = "DeleteVulnerabilitiesOlderThan",
                                !.cutoff = cutoff, !.atCall = Tables,
                                !.txAffected = affected,
                                !.txVulnerability = vulnerability,
                                !.txSnapshot = reported_snapshot,
                                !.pc = IF ok THEN "deleteAffected" ELSE "returned",
                                !.err = IF ok THEN "" ELSE "begin transaction"]
    /\ UNCHANGED <<vulnerability, affected, tombstone, source_cursor, reported_snapshot,
                   now, local, last, env>>

\* DeleteVulnerabilitiesOlderThan: DELETE FROM affected WHERE vuln_id IN (...)
TxDeleteAffected ==
    /\ run.pc = "deleteAffected"
    /\ \E ok \in BOOLEAN :
          IF ok
          THEN LET tx == DeleteOldAffected(run.txAffected, run.txVulnerability, run.cutoff)
               IN  /\ run' = [run EXCEPT !.txAffected = tx, !.pc = "deleteVulnerability"]
                   /\ affected' = Uncommitted(affected, tx)
                   /\ UNCHANGED <<vulnerability, reported_snapshot>>
          ELSE TxFails("delete old affected records")
    /\ UNCHANGED <<tombstone, source_cursor, now, local, last, env>>

\* DeleteVulnerabilitiesOlderThan: DELETE FROM vulnerability WHERE modified < ?
TxDeleteVulnerability ==
    /\ run.pc = "deleteVulnerability"
    /\ \E ok \in BOOLEAN :
          IF ok
          THEN LET tx == DeleteOldVulnerability(run.txVulnerability, run.cutoff)
               IN  /\ run' = [run EXCEPT !.txVulnerability = tx, !.pc = "commitDelete"]
                   /\ vulnerability' = Uncommitted(vulnerability, tx)
                   /\ UNCHANGED <<affected, reported_snapshot>>
          ELSE TxFails("delete old vulnerabilities")
    /\ UNCHANGED <<tombstone, source_cursor, now, local, last, env>>

\* DeleteVulnerabilitiesOlderThan: tx.Commit
CommitDelete ==
    /\ run.pc = "commitDelete"
    /\ \E ok \in BOOLEAN :
          IF ok
          THEN /\ run' = [run EXCEPT !.pc = "returned"]
               /\ affected' = run.txAffected
               /\ vulnerability' = run.txVulnerability
               /\ UNCHANGED reported_snapshot
          ELSE TxFails("commit transaction")
    /\ UNCHANGED <<tombstone, source_cursor, now, local, last, env>>

\* SaveReportSnapshot: s.db.BeginTx
BeginSnapshot ==
    /\ run.pc = "idle"
    /\ \E entries \in SnapshotArguments, ok \in BOOLEAN :
          run' = [IdleTx EXCEPT !.op = "SaveReportSnapshot",
                                !.entries = entries, !.todo = entries, !.atCall = Tables,
                                !.txAffected = affected,
                                !.txVulnerability = vulnerability,
                                !.txSnapshot = reported_snapshot,
                                !.pc = IF ok THEN "clear" ELSE "returned",
                                !.err = IF ok THEN "" ELSE "begin transaction"]
    /\ UNCHANGED <<vulnerability, affected, tombstone, source_cursor, reported_snapshot,
                   now, local, last, env>>

\* SaveReportSnapshot: DELETE FROM reported_snapshot
TxClearSnapshot ==
    /\ run.pc = "clear"
    /\ \E ok \in BOOLEAN :
          IF ok
          THEN /\ run' = [run EXCEPT !.txSnapshot = {}, !.pc = "prepare"]
               /\ reported_snapshot' = Uncommitted(reported_snapshot, {})
               /\ UNCHANGED <<affected, vulnerability>>
          ELSE TxFails("clear snapshot")
    /\ UNCHANGED <<tombstone, source_cursor, now, local, last, env>>

\* SaveReportSnapshot: tx.PrepareContext
TxPrepareInsert ==
    /\ run.pc = "prepare"
    /\ \E ok \in BOOLEAN :
          IF ok
          THEN /\ run' = [run EXCEPT !.pc = IF run.todo = <<>> THEN "commitSnapshot"
                                            ELSE "insert"]
               /\ UNCHANGED <<affected, vulnerability, reported_snapshot>>
          ELSE TxFails("prepare insert")
    /\ UNCHANGED <<tombstone, source_cursor, now, local, last, env>>

\* SaveReportSnapshot: one stmt.ExecContext of the loop over entries
TxInsertSnapshot ==
    /\ run.pc = "insert"
    /\ \E ok \in BOOLEAN :
          LET row == SnapshotRow(Head(run.todo))
              rest == Tail(run.todo)
          IN  IF ok /\ ~SnapshotConflict(run.txSnapshot, row)
              THEN LET tx == run.txSnapshot \cup {row}
                   IN  /\ run' = [run EXCEPT !.txSnapshot = tx, !.todo = rest,
                                             !.pc = IF rest = <<>> THEN "commitSnapshot"
                                                    ELSE "insert"]
                       /\ reported_snapshot' = Uncommitted(reported_snapshot, tx)
                       /\ UNCHANGED <<affected, vulnerability>>
              ELSE TxFails("insert snapshot entry")
    /\ UNCHANGED <<tombstone, source_cursor, now, local, last, env>>

\* SaveReportSnapshot: tx.Commit
CommitSnapshot ==
    /\ run.pc = "commitSnapshot"
    /\ \E ok \in BOOLEAN :
          IF ok
          THEN /\ run' = [run EXCEPT !.pc = "returned"]
               /\ reported_snapshot' = run.txSnapshot
               /\ UNCHANGED <<affected, vulnerability>>
          ELSE TxFails("commit transaction")
    /\ UNCHANGED <<tombstone, source_cursor, now, local, last, env>>

TxInit ==
    /\ EmptyStore
    /\ local = "Z"
    /\ now = 0
    /\ last = NoCall
    /\ run = IdleTx
    /\ env = TxProfile

TxNext ==
    \/ TxSaveVulnerability
    \/ TxSaveAffected
    \/ TxSaveTombstone
    \/ BeginDelete
    \/ TxDeleteAffected
    \/ TxDeleteVulnerability
    \/ CommitDelete
    \/ BeginSnapshot
    \/ TxClearSnapshot
    \/ TxPrepareInsert
    \/ TxInsertSnapshot
    \/ CommitSnapshot
    \/ TxReturned

SpecTx == TxInit /\ [][TxNext]_vars

\* ------------------------------------- the API client and the worker pool
\* Scraper.ProcessEntriesParallel called on its own, with Client.GetVulnerability
\* and processEntry taken step by step.  run holds the call: the group's
\* context (cancelled), the caller's context (ctxDone), the limiter's bucket
\* (tokens), the error errgroup keeps (groupErr), and one record per task.

maxRetries == 3

\* What one attempt can end with: a status, a transport error, a body that
\* does not decode.
Responses == {"200", "404", "400", "429", "500", "neterr", "baddecode"}

\* The attempts for id can end with anything, unless the run is one in which
\* the API gives one answer for each id.
ResponsesFor(id) == IF env.name = "pool" THEN {env.api[id].status} ELSE Responses

CtxErrors == {"context canceled", "rate limit wait: context canceled",
              "do request: context canceled"}

\* getVulnerabilityOnce: the error of a response other than 200, 404 and 429.
ResponseError(resp) ==
    CASE resp = "400" -> "bad request"
      [] resp = "500" -> "unexpected status code"
      [] resp = "neterr" -> "do request"
      [] OTHER -> "decode response"

\* A retry loop that also retries server errors.
RetryableAnyFailure(resp) == resp \in {"429", "500"}

\* `if !errors.Is(err, ErrTooManyRequests) { return nil, err }`
Retryable(resp) == resp = "429"

\* backoff := time.Duration(attempt+1) * time.Second, in seconds.
BackoffSeconds(attempt) == attempt + 1

\* A retry that sends its request without waiting on the limiter.
RetryWithoutWait(t) == [t EXCEPT !.pc = "http", !.attempt = @ + 1, !.requests = @ + 1]

\* The next turn of the retry loop: getVulnerabilityOnce starts with the limiter.
NextAttempt(t) == [t EXCEPT !.pc = "limiter", !.attempt = @ + 1]

\* Calls that do not look at their context.
ContextIgnored(r) == FALSE

\* The context of the tasks: errgroup.WithContext(ctx).
CtxDone(r) == r.ctxDone \/ r.cancelled

\* A group that keeps the error of the task that failed last.
ErrLast(cur, err) == err

\* errgroup's errOnce: the first error of a task is kept.
ErrOnce(cur, err) == IF cur = "" THEN err ELSE cur

\* A pool without its semaphore.
SlotAlwaysFree(r) == TRUE

\* `sem <- struct{}{}` does not block.
SlotFree(r) == Cardinality(Running(r)) < r.n

\* processEntry going on after a failed SaveVulnerability.
SaveVulnerabilityErrorIgnored(ok) == FALSE

\* `if err := s.store.SaveVulnerability(ctx, vuln); err != nil`
SaveVulnerabilityFailed(ok) == ~ok

PoolTask ==
    [pc |-> "ready", attempt |-> 0, n429 |-> 0, requests |-> 0, slept |-> 0,
     byCtx |-> FALSE, err |-> "", todo |-> <<>>, saved |-> FALSE, written |-> 0]

IdlePool ==
    [pc |-> "idle", i |-> 0, n |-> 0, entries |-> <<>>, tasks |-> <<>>,
     cancelled |-> FALSE, ctxDone |-> FALSE, tokens |-> 1, groupErr |-> "", err |-> ""]

\* A task returns err: the group keeps it and cancels its context.
Fail(r, k, err) ==
    [r EXCEPT !.tasks[k].pc = "failed", !.tasks[k].err = err,
              !.groupErr = ErrOnce(r.groupErr, err), !.cancelled = TRUE]

PoolEntries == UNION {[1..n -> [ID : env.ids, Modified : env.lastmods]] : n \in 1..MaxUrls}

CallProcessEntriesParallel ==
    /\ run.pc \in {"idle", "returned"}
    /\ ~run.ctxDone
    /\ \E entries \in PoolEntries :
          run' = [IdlePool EXCEPT !.pc = "parallel", !.n = env.concurrency,
                                  !.entries = entries, !.tokens = run.tokens,
                                  !.tasks = [k \in 1..Len(entries) |-> PoolTask]]
    /\ UNCHANGED <<vulnerability, affected, tombstone, source_cursor, reported_snapshot,
                   now, local, last, env>>

\* The caller's context is cancelled (a signal, a deadline).
CancelContext ==
    /\ run.pc = "parallel"
    /\ ~run.ctxDone
    /\ run' = [run EXCEPT !.ctxDone = TRUE]
    /\ UNCHANGED <<vulnerability, affected, tombstone, source_cursor, reported_snapshot,
                   now, local, last, env>>

\* The bucket of the limiter (burst 1) gets its token back.
Refill ==
    /\ run.pc = "parallel"
    /\ run.tokens = 0
    /\ run' = [run EXCEPT !.tokens = 1]
    /\ UNCHANGED <<vulnerability, affected, tombstone, source_cursor, reported_snapshot,
                   now, local, last, env>>

\* The task takes its slot and calls processEntry, which calls GetVulnerability.
Acquire(k) ==
    /\ run.pc = "parallel"
    /\ k \in DOMAIN run.tasks
    /\ run.tasks[k].pc = "ready"
    /\ SlotFree(run)
    /\ run' = [run EXCEPT !.tasks[k].pc = "limiter"]
    /\ UNCHANGED <<vulnerability, affected, tombstone, source_cursor, reported_snapshot,
                   now, local, last, env>>

\* getVulnerabilityOnce: c.limiter.Wait(ctx), then the request is sent.
LimiterWait(k) ==
    /\ run.pc = "parallel"
    /\ k \in DOMAIN run.tasks
    /\ run.tasks[k].pc = "limiter"
    /\ IF CtxDone(run)
       THEN run' = [Fail(run, k, "rate limit wait: context canceled")
                       EXCEPT !.tasks[k].byCtx = TRUE]
       ELSE /\ run.tokens > 0
            /\ run' = [run EXCEPT !.tokens = @ - 1, !.tasks[k].pc = "http",
                                  !.tasks[k].requests = @ + 1]
    /\ UNCHANGED <<vulnerability, affected, tombstone, source_cursor, reported_snapshot,
                   now, local, last, env>>

\* c.httpClient.Do returns, and the retry loop of GetVulnerability decides.
Respond(k) ==
    /\ run.pc = "parallel"
    /\ k \in DOMAIN run.tasks
    /\ run.tasks[k].pc = "http"
    /\ IF CtxDone(run)
       THEN run' = [Fail(run, k, "do request: context canceled")
                       EXCEPT !.tasks[k].byCtx = TRUE]
       ELSE \E resp \in ResponsesFor(TaskEntry(run, k).ID) :
               run' =
                  IF resp = "200"
                  THEN [run EXCEPT !.tasks[k].pc = "save"]
                  ELSE IF resp = "404"
                  THEN [run EXCEPT !.tasks[k].pc = "tomb"]
                  ELSE IF ~Retryable(resp)
                  THEN Fail(run, k, ResponseError(resp))
                  ELSE IF run.tasks[k].attempt < maxRetries - 1
                  THEN [run EXCEPT !.tasks[k].pc = "backoff",
                                   !.tasks[k].n429 = @ + (IF resp = "429" THEN 1 ELSE 0)]
                  ELSE [Fail(run, k, "max retries exceeded: too many requests")
                           EXCEPT !.tasks[k].n429 = @ + (IF resp = "429" THEN 1 ELSE 0)]
    /\ UNCHANGED <<vulnerability, affected, tombstone, source_cursor, reported_snapshot,
                   now, local, last, env>>

\* select { case <-c.timeAfter(backoff): case <-ctx.Done(): return nil, ctx.Err() }
\* When both channels are ready the select takes either.
Backoff(k) ==
    /\ run.pc = "parallel"
    /\ k \in DOMAIN run.tasks
    /\ run.tasks[k].pc = "backoff"
    /\ \/ run' = [run EXCEPT !.tasks[k] =
                      NextAttempt([@ EXCEPT !.slept = @ + BackoffSeconds(run.tasks[k].attempt)])]
       \/ /\ CtxDone(run)
          /\ run' = [Fail(run, k, "context canceled") EXCEPT !.tasks[k].byCtx = TRUE]
    /\ UNCHANGED <<vulnerability, affected, tombstone, source_cursor, reported_snapshot,
                   now, local, last, env>>

\* processEntry on ErrNotFound: return s.store.SaveTombstone(ctx, entry.ID)
StoreTombstone(k) ==
    /\ run.pc = "parallel"
    /\ k \in DOMAIN run.tasks
    /\ run.tasks[k].pc = "tomb"
    /\ \E ok \in BOOLEAN :
          LET done == ok /\ ~CtxDone(run)
          IN  /\ tombstone' = IF done THEN SaveTombstone(tombstone, TaskEntry(run, k).ID)
                              ELSE tombstone
              /\ run' = IF done THEN [run EXCEPT !.tasks[k].pc = "tombstoned"]
                        ELSE Fail(run, k, "save tombstone")
    /\ UNCHANGED <<vulnerability, affected, source_cursor, reported_snapshot,
                   now, local, last, env>>

\* processEntry: s.store.SaveVulnerability(ctx, vuln)
StoreVulnerability(k) ==
    /\ run.pc = "parallel"
    /\ k \in DOMAIN run.tasks
    /\ run.tasks[k].pc = "save"
    /\ \E vuln \in ApiVulns(TaskEntry(run, k).ID), ok \in BOOLEAN :
          LET done == ok /\ ~CtxDone(run)
          IN  /\ vulnerability' = IF done THEN AdapterSaveVulnerability(vulnerability, vuln)
                                  ELSE vulnerability
              /\ run' = IF SaveVulnerabilityFailed(done)
                        THEN Fail(run, k, "save vulnerability")
                        ELSE IF vuln.Affected = <<>>
                        THEN [run EXCEPT !.tasks[k].pc = "done", !.tasks[k].saved = done]
                        ELSE [run EXCEPT !.tasks[k].pc = "writing", !.tasks[k].saved = done,
                                         !.tasks[k].todo = vuln.Affected]
    /\ UNCHANGED <<affected, tombstone, source_cursor, reported_snapshot,
                   now, local, last, env>>

\* processEntry: one s.store.SaveAffected of the loop over vuln.Affected
StoreAffected(k) ==
    /\ run.pc = "parallel"
    /\ k \in DOMAIN run.tasks
    /\ run.tasks[k].pc = "writing"
    /\ LET a == Head(run.tasks[k].todo)
           rest == Tail(run.tasks[k].todo)
       IN  \E ok \in BOOLEAN :
              LET done == ok /\ ~CtxDone(run)
              IN  /\ affected' =
                        IF done
                        THEN SaveAffected(affected,
                                [vuln_id |-> TaskEntry(run, k).ID,
                                 ecosystem |-> a.Ecosystem, package |-> a.Name])
                        ELSE affected
                  /\ run' = IF ~done THEN Fail(run, k, "save affected")
                            ELSE [run EXCEPT !.tasks[k].written = @ + 1,
                                             !.tasks[k].todo = rest,
                                             !.tasks[k].pc = IF rest = <<>> THEN "done"
                                                             ELSE "writing"]
    /\ UNCHANGED <<vulnerability, tombstone, source_cursor, reported_snapshot,
                   now, local, last, env>>

\* g.Wait(): every task has returned; the error kept by the group is returned.
ReturnParallel ==
    /\ run.pc = "parallel"
    /\ Finished(run)
    /\ run' = [run EXCEPT !.pc = "returned", !.err = run.groupErr]
    /\ UNCHANGED <<vulnerability, affected, tombstone, source_cursor, reported_snapshot,
                   now, local, last, env>>

ClientInit ==
    /\ EmptyStore
    /\ local = "Z"
    /\ now = 0
    /\ last = NoCall
    /\ run = IdlePool
    /\ \E n \in 1..MaxConcurrency : env = ClientProfile(n)

ClientNext ==
    \/ CallProcessEntriesParallel
    \/ CancelContext
    \/ Refill
    \/ \E k \in 1..MaxUrls : Acquire(k)
    \/ \E k \in 1..MaxUrls : LimiterWait(k)
    \/ \E k \in 1..MaxUrls : Respond(k)
    \/ \E k \in 1..MaxUrls : Backoff(k)
    \/ \E k \in 1..MaxUrls : StoreTombstone(k)
    \/ \E k \in 1..MaxUrls : StoreVulnerability(k)
    \/ \E k \in 1..MaxUrls : StoreAffected(k)
    \/ ReturnParallel

SpecClient == ClientInit /\ [][ClientNext]_vars

\* Every goroutine of the group is scheduled again, a timer fires, the HTTP
\* client's Timeout bounds a request and SQLite's busy timeout a write: a step
\* of a task that stays possible is taken.
ClientFairness ==
    /\ \A k \in 1..MaxUrls :
          /\ WF_vars(Acquire(k))
          /\ WF_vars(LimiterWait(k))
          /\ WF_vars(Respond(k))
          /\ WF_vars(Backoff(k))
          /\ WF_vars(StoreTombstone(k))
          /\ WF_vars(StoreVulnerability(k))
          /\ WF_vars(StoreAffected(k))
    /\ WF_vars(ReturnParallel)

SpecClientLive == ClientInit /\ [][ClientNext]_vars /\ ClientFairness

\* ------------------------------------------------------ the report driver
ReportFilters == {"", "npm"}
KnownFormats == {"markdown", "csv", "jsonl"}
\* opts.Format as given on the command line: a known format and an unknown one.
Formats == {"markdown", "xml"}

\* A report driver that snapshots the rows it has emitted.
SnapshotOfEmitted(entries, allEntries) == entries

\* What GenerateReport hands to SaveReportSnapshot: the result of its second
\* query, GetVulnerabilitiesForReport, not the rows it has emitted.
SnapshotSource(entries, allEntries) == allEntries

\* The rows GenerateReport queries first: the unreported rows of a differential
\* report, every row of the ecosystem otherwise.
ReportEntries(diff, ecosystem) ==
    IF diff
    THEN GetUnreportedVulnerabilities(vulnerability, affected, reported_snapshot, ecosystem)
    ELSE GetVulnerabilitiesForReport(vulnerability, affected, ecosystem)

\* The error GenerateReport returns, "" for nil.  fail names the call that
\* returns an error, if it is reached.  The return on an empty result comes
\* before the switch on opts.Format.
ReportError(diff, ecosystem, format, fail) ==
    LET entries == ReportEntries(diff, ecosystem)
    IN  CASE fail = "query" -> "get vulnerabilities"
          [] fail # "query" /\ entries = {} -> ""
          [] fail # "query" /\ entries # {} /\ format \notin KnownFormats ->
                 "unknown report format"
          [] fail = "write" /\ entries # {} /\ format \in KnownFormats ->
                 "write report"
          [] fail = "queryAll" /\ entries # {} /\ format \in KnownFormats /\ diff ->
                 "get all vulnerabilities for snapshot"
          [] fail = "snapshot" /\ entries # {} /\ format \in KnownFormats /\ diff ->
                 "save report snapshot"
          [] OTHER -> ""

ReportFails == {"none", "query", "write", "queryAll", "snapshot"}

\* A report driver that saves the snapshot at the end of every call.
SnapshotAlways(diff, written, err) == TRUE

\* GenerateReport reaches SaveReportSnapshot, and it commits: the report is
\* differential, the output was written, and no later call failed.
SnapshotDue(diff, written, err) == diff /\ written /\ err = ""

\* One call of GenerateReport, on a store nothing else writes meanwhile.
GenerateReport ==
    \E diff \in BOOLEAN, ecosystem \in ReportFilters, format \in Formats,
       fail \in ReportFails :
        LET entries == ReportEntries(diff, ecosystem)
            allEntries == GetVulnerabilitiesForReport(vulnerability, affected, ecosystem)
            err == ReportError(diff, ecosystem, format, fail)
            written == /\ fail \notin {"query", "write"}
                       /\ entries # {}
                       /\ format \in KnownFormats
        IN  /\ reported_snapshot' =
                  IF SnapshotDue(diff, written, err)
                  THEN SaveReportSnapshot(SnapshotSource(entries, allEntries))
                  ELSE reported_snapshot
            /\ last' = [op |-> "GenerateReport", ok |-> err = "", diff |-> diff,
                        ecosystem |-> ecosystem,
                        emitted |-> IF written THEN Cardinality(entries) ELSE 0]
            /\ UNCHANGED <<vulnerability, affected, tombstone, source_cursor, local, now, run, env>>

ReportInit ==
    /\ EmptyStore
    /\ local = "Z"
    /\ now = 0
    /\ last = NoCall
    /\ run = IdleRun
    /\ env = ReportProfile

ReportNext ==
    \/ CallSaveVulnerability
    \/ CallSaveAffected
    \/ CallDeleteVulnerabilitiesOlderThan
    \/ GenerateReport

SpecReport == ReportInit /\ [][ReportNext]_vars

\* ------------------------------------------------------------ properties

\* C1: the cursor of an ecosystem is written only after every batch of the
\* run has succeeded: while the run reads the cursor, fetches the sitemap and
\* processes its batches, and after the cursor read, the sitemap fetch or a
\* task of a batch has failed, the stored cursor is the one the run started with.
C1_CursorKeptUntilBatchesDone ==
    (run.pc \in {"sitemap", "batch", "saveCursor"} \/ run.failedEarly) =>
        source_cursor[Source(run)] = run.cursor0

\* A second batch failed after the first had succeeded, over a stored cursor.
C1_Witness ==
    /\ run.pc = "return"
    /\ run.err = "process batch"
    /\ run.i > 0
    /\ run.cursor0 # NoCursor

\* C2: a stored cursor is never removed and never replaced by an earlier instant.
C2_CursorNeverBackward ==
    [][\A s \in Ecosystems :
          source_cursor[s] # NoCursor =>
              /\ source_cursor'[s] # NoCursor
              /\ Parse(source_cursor'[s]).t >= Parse(source_cursor[s]).t]_vars

\* SaveCursor has replaced a stored cursor by a later one.
C2_Witness ==
    /\ run.pc = "prune"
    /\ run.cursor0 # NoCursor
    /\ Parse(source_cursor[Source(run)]).t > Parse(run.cursor0).t

RECURSIVE MaxModified(_)
MaxModified(entries) ==
    IF Len(entries) = 1 THEN entries[1].Modified.t
    ELSE LET m == MaxModified(Tail(entries))
         IN  IF entries[1].Modified.t > m THEN entries[1].Modified.t ELSE m

\* C3: after a successful run that processed at least one entry the stored
\* cursor is the largest modified value among the processed entries (to the
\* second, which is what the stored text holds).
C3_CursorIsLargestModified ==
    (run.pc = "return" /\ run.err = "" /\ run.entries # <<>>) =>
        Parse(source_cursor[Source(run)]).t = FloorSec(MaxModified(run.entries))

\* C4: a run whose sitemap yields no entries still prunes: when it returns
\* without error no Vulnerability row older than the retention cutoff is left.
C4_EmptyRunStillPrunes ==
    (run.pc = "return" /\ run.err = "" /\ run.entries = <<>>) =>
        OlderThan(vulnerability, run.cutoff) = {}

\* C5: after DeleteVulnerabilitiesOlderThan(C) has returned successfully no
\* Vulnerability row has a modified instant earlier than C, and no Affected
\* row references a Vulnerability the call deleted.
C5_NoRowOlderThanCutoff ==
    (last.op = "DeleteVulnerabilitiesOlderThan" /\ last.ok) =>
        /\ \A id \in Ids :
              vulnerability[id].present =>
                  ~(Parse(vulnerability[id].modified).t < last.cutoff.t)
        /\ \A a \in affected : a.vuln_id \notin last.deleted

\* C6: every Affected row's vuln_id is the id of an existing Vulnerability row.
C6_AffectedHasVulnerability ==
    \A a \in affected : vulnerability[a.vuln_id].present

\* C7: when the scraper has processed an entry whose API response is 404, a
\* Tombstone row for the id exists and no Vulnerability row for it does.  The
\* step looked at is the first one of a run, so that a row found is one the
\* store held before.
C7_NotFoundLeavesNoVulnerability ==
    [][\A k \in 1..MaxBatchSize :
          (/\ run.pc = "batch" /\ run.i = 0
           /\ \A j \in DOMAIN run.tasks : run.tasks[j].pc = "ready"
           /\ k \in DOMAIN run.tasks
           /\ run'.tasks[k].pc = "tombstoned")
          => /\ TaskEntry(run, k).ID \in tombstone'
             /\ ~vulnerability'[TaskEntry(run, k).ID].present]_vars

\* C8: no API request is issued for an id that had a Tombstone row when the
\* run started.
C8_TombstoneStopsRefetch ==
    run.pc \in {"batch", "saveCursor", "prune", "return"} =>
        Requested(run) \cap run.tomb0 = {}

Key(id, ecosystem, package) == <<id, ecosystem, package>>
EntryKey(e) == Key(e.ID, e.Ecosystem, e.Package)
RowKey(r) == Key(r.id, r.ecosystem, r.package)

\* The compared values of a snapshot row and of a current row are equal.
SameCompared(r, e) ==
    /\ r.modified = e.Modified
    /\ CoalesceScore(r.severity_base_score) = CoalesceScore(e.SeverityBaseScore)
    /\ CoalesceVector(r.severity_vector) = CoalesceVector(toNullString(e.SeverityVector))

SnapshotOf(ecosystem) ==
    {r \in reported_snapshot : ecosystem = "" \/ r.ecosystem = ecosystem}

CurrentOf(ecosystem) == GetVulnerabilitiesForReport(vulnerability, affected, ecosystem)

UnreportedOf(ecosystem) ==
    GetUnreportedVulnerabilities(vulnerability, affected, reported_snapshot, ecosystem)

\* C10 as stated: the keys returned are the keys of the symmetric difference:
\* the keys of a current row without an equal snapshot row, and the keys of a
\* snapshot row without an equal current row.
C10_SymmetricDifference ==
    \A ecosystem \in ReportFilters :
        {EntryKey(e) : e \in UnreportedOf(ecosystem)} =
            {EntryKey(e) : e \in {c \in CurrentOf(ecosystem) :
                ~\E r \in SnapshotOf(ecosystem) : RowKey(r) = EntryKey(c) /\ SameCompared(r, c)}}
            \cup
            {RowKey(r) : r \in {x \in SnapshotOf(ecosystem) :
                ~\E c \in CurrentOf(ecosystem) : RowKey(x) = EntryKey(c) /\ SameCompared(x, c)}}

\* C10: the rows returned are the rows of the current report query result
\* whose key has no snapshot row, or a snapshot row that differs in modified,
\* in the score (null compared as -1) or in the vector (null compared as '');
\* a key that only the snapshot holds is not returned.
C10_CurrentRowsNotInSnapshot ==
    \A ecosystem \in ReportFilters :
        UnreportedOf(ecosystem) =
            {c \in CurrentOf(ecosystem) :
                ~\E r \in reported_snapshot : RowKey(r) = EntryKey(c) /\ SameCompared(r, c)}

\* The snapshot holds a key the store no longer has, a row that has changed
\* since, and a row that has not.
C10_Witness ==
    /\ \E r \in reported_snapshot : \A c \in CurrentOf("") : RowKey(r) # EntryKey(c)
    /\ \E r \in reported_snapshot : \E c \in CurrentOf("") :
          RowKey(r) = EntryKey(c) /\ ~SameCompared(r, c)
    /\ \E r \in reported_snapshot : \E c \in CurrentOf("") :
          RowKey(r) = EntryKey(c) /\ SameCompared(r, c)
    /\ UnreportedOf("") # {}

\* C11: when a differential report that completed without error is followed,
\* with no store change in between, by a differential report with the same
\* ecosystem filter, the second report emits no row.
C11_SecondDiffReportIsEmpty ==
    [][(/\ last.op = "GenerateReport" /\ last.diff /\ last.ok
        /\ last'.op = "GenerateReport" /\ last'.diff
        /\ last'.ecosystem = last.ecosystem
        /\ vulnerability' = vulnerability /\ affected' = affected)
       => last'.emitted = 0]_vars

\* A differential report has emitted rows and saved its snapshot; the query of
\* a second one with the same filter finds nothing.
C11_Witness ==
    /\ last.op = "GenerateReport" /\ last.diff /\ last.ok
    /\ last.emitted > 0
    /\ UnreportedOf(last.ecosystem) = {}

\* The snapshot row with the key of an affected row, if any.
SnapshotRowsOf(a) ==
    {r \in reported_snapshot :
        r.id = a.vuln_id /\ r.ecosystem = a.ecosystem /\ r.package = a.package}

VectorOrEmpty(s) == IF s = NullText THEN "" ELSE s

ScoreOrSentinel(f) == IF f.Valid THEN f.Float64 ELSE 0 - 10

CallEnded(t) == t.pc \notin {"ready", "limiter", "http", "backoff"}

\* 1 + 2 + ... + n seconds
SecondsUpTo(n) == (n * (n + 1)) \div 2

\* C13 as stated: a call that has sent a request and has returned has sent one
\* request more than it got 429 responses, up to three, whatever else happened.
C13_RetriesIffTooManyRequests ==
    \A k \in DOMAIN run.tasks :
        LET t == run.tasks[k]
        IN  (run.pc = "parallel" /\ CallEnded(t) /\ t.requests >= 1) =>
                t.requests = Min(maxRetries, t.n429 + 1)

\* C13: a request after the first is sent only after a 429 on every earlier one
\* and never after the third; a call that has returned otherwise than by a
\* done context has sent one request more than it got 429 responses, up to
\* three, and has waited 1 s before the second and 2 s before the third; three
\* 429 responses end it with the TooManyRequests error.
C13_RetriesUnlessContextDone ==
    \A k \in DOMAIN run.tasks :
        LET t == run.tasks[k]
        IN  run.pc = "parallel" =>
                /\ t.requests <= maxRetries
                /\ t.requests <= t.n429 + 1
                /\ (CallEnded(t) /\ t.requests >= 1 /\ ~t.byCtx) =>
                      /\ t.requests = Min(maxRetries, t.n429 + 1)
                      /\ t.slept = SecondsUpTo(t.requests - 1)
                /\ (CallEnded(t) /\ t.n429 = maxRetries) =>
                      t.err = "max retries exceeded: too many requests"

\* 429, 429, 200: success after three requests and 1 s + 2 s of backoff.
C13_Witness ==
    \E k \in DOMAIN run.tasks :
        /\ run.pc = "parallel"
        /\ run.tasks[k].pc = "save"
        /\ run.tasks[k].requests = 3
        /\ run.tasks[k].n429 = 2
        /\ run.tasks[k].slept = 3

\* C14: when the context is done at the moment the backoff wait of a call
\* resolves, the call returns the context's error and starts no further attempt.
C14_BackoffPrefersContextDone ==
    [][\A k \in 1..MaxUrls :
          (/\ run.pc = "parallel"
           /\ k \in DOMAIN run.tasks
           /\ run.tasks[k].pc = "backoff"
           /\ CtxDone(run)
           /\ run'.tasks[k].pc # "backoff")
          => /\ run'.tasks[k].pc = "failed"
             /\ run'.tasks[k].err = "context canceled"
             /\ run'.tasks[k].attempt = run.tasks[k].attempt]_vars

\* C15: once the caller's context is cancelled, every GetVulnerability call in
\* progress (in the limiter's wait, in the HTTP call, in a backoff sleep)
\* eventually returns an error of the context, and ProcessEntriesParallel
\* eventually returns.
C15_CancellationUnblocks ==
    /\ \A k \in 1..MaxUrls :
          (/\ run.pc = "parallel" /\ run.ctxDone
           /\ k \in DOMAIN run.tasks
           /\ run.tasks[k].pc \in {"limiter", "http", "backoff"})
          ~> (/\ k \in DOMAIN run.tasks
              /\ run.tasks[k].pc = "failed"
              /\ run.tasks[k].err \in CtxErrors)
    /\ (run.pc = "parallel" /\ run.ctxDone) ~> (run.pc = "returned")

\* After a cancellation the call has returned; a request in flight, a limiter
\* wait or a backoff sleep was cut short.
C15_Witness ==
    /\ run.pc = "returned"
    /\ run.ctxDone
    /\ run.err \in CtxErrors
    /\ \E k \in DOMAIN run.tasks : run.tasks[k].err = "do request: context canceled"

C17_FirstErrorReturned ==
    [][\A k \in 1..MaxUrls :
          (/\ run.pc = "parallel"
           /\ k \in DOMAIN run.tasks)
          => /\ (run'.pc = "parallel"
                 /\ run.tasks[k].pc # "failed" /\ run'.tasks[k].pc = "failed")
                => /\ run'.cancelled
                   /\ run'.tasks[k].err # ""
                   /\ run'.groupErr = IF \E j \in DOMAIN run.tasks : run.tasks[j].pc = "failed"
                                      THEN run.groupErr
                                      ELSE run'.tasks[k].err
             /\ (run'.pc = "returned")
                => /\ run'.err = run.groupErr
                   /\ (run.tasks[k].pc = "failed") => run'.err # ""]_vars

\* The call returned the bad request of the task that failed first; its sibling
\* failed afterwards on the cancelled context of the group.
C17_Witness ==
    /\ run.pc = "returned"
    /\ ~run.ctxDone
    /\ run.err = "bad request"
    /\ \E k \in DOMAIN run.tasks :
          /\ run.tasks[k].pc = "failed"
          /\ run.tasks[k].err \in CtxErrors

\* C18: while ProcessEntriesParallel(entries, n) runs, at most n tasks are
\* between the start of GetVulnerability and the end of their store writes,
\* hence at most n requests are in flight.
C18_AtMostNInFlight ==
    run.pc = "parallel"
    => LET busy == {k \in DOMAIN run.tasks :
                       run.tasks[k].pc \in {"limiter", "http", "backoff", "tomb", "save", "writing"}}
           inFlight == {k \in DOMAIN run.tasks : run.tasks[k].pc = "http"}
       IN  /\ Cardinality(busy) <= run.n
           /\ Cardinality(inFlight) <= run.n

\* More entries than slots: one task has its request out, the other one has
\* not got a slot yet.
C18_Witness ==
    /\ run.pc = "parallel"
    /\ run.n = 1
    /\ Len(run.entries) = 2
    /\ \E k, j \in DOMAIN run.tasks :
          /\ run.tasks[k].pc = "http"
          /\ run.tasks[j].pc = "ready"

\* C19: the batch loop leaves a batch, for the next batch, for the cursor save
\* or for the return, only when every task of the batch has ended: no request
\* and no write of a task happens after that, and while the cursor is saved
\* and old rows are pruned no task exists.
C19_BatchesSequential ==
    [][/\ (run.pc = "batch" /\ (run'.pc # "batch" \/ run'.i # run.i))
          => \A k \in DOMAIN run.tasks :
                run.tasks[k].pc \in {"done", "tombstoned", "failed", "skipped"}
       /\ (run.pc \in {"saveCursor", "prune", "return"})
          => /\ \A k \in DOMAIN run.tasks :
                   run.tasks[k].pc \in {"done", "tombstoned", "failed", "skipped"}
             /\ tombstone' = tombstone
       /\ (run.pc \in {"saveCursor", "prune"}) => run.tasks = <<>>
       /\ (run.pc = "saveCursor") => (vulnerability' = vulnerability /\ affected' = affected)]_vars

\* The second batch is at work, a task of it between its two writes; the first
\* batch has ended.
C19_Witness ==
    /\ run.pc = "batch"
    /\ run.batchSize = 1
    /\ run.i = 1
    /\ Len(run.entries) = 2
    /\ \E k \in DOMAIN run.tasks : run.tasks[k].pc = "writing"

\* C20: a task writes Affected rows only after its SaveVulnerability returned
\* without error; a task whose Vulnerability write failed has written no
\* Affected row, and every Affected row the pool wrote has its Vulnerability row.
C20_VulnerabilityBeforeAffected ==
    /\ \A k \in DOMAIN run.tasks :
          LET t == run.tasks[k]
          IN  /\ (t.pc = "writing" \/ t.written > 0) => t.saved
              /\ (t.err = "save vulnerability")
                 => (t.pc = "failed" /\ ~t.saved /\ t.written = 0)
    /\ \A a \in affected : vulnerability[a.vuln_id].present

\* A task has written its Vulnerability row and then an Affected row.
C20_Witness ==
    /\ affected # {}
    /\ \E k \in DOMAIN run.tasks :
          /\ run.tasks[k].saved
          /\ run.tasks[k].written = 1
          /\ run.tasks[k].pc = "done"

\* C21: a 404 is a success of its task. The step that writes the tombstone
\* ends the task without cancelling the group and leaves the other tasks as
\* they are; a batch whose tasks all stored their record or wrote their
\* tombstone is followed by the next batch or, after the last one, by the save
\* of the cursor, with no error.
C21_NotFoundIsSuccess ==
    [][/\ (run.pc = "batch" /\ tombstone' # tombstone)
          => \E k \in DOMAIN run.tasks :
                /\ run.tasks[k].pc = "ready"
                /\ run'.tasks[k].pc = "tombstoned"
                /\ TaskEntry(run, k).ID \in tombstone'
                /\ run'.cancelled = run.cancelled
                /\ run'.err = run.err
                /\ \A j \in DOMAIN run.tasks \ {k} : run'.tasks[j] = run.tasks[j]
       /\ (/\ run.pc = "batch"
           /\ \A k \in DOMAIN run.tasks : run.tasks[k].pc \in {"done", "tombstoned"}
           /\ \E k \in DOMAIN run.tasks : run.tasks[k].pc = "tombstoned")
          => /\ run'.err = ""
             /\ run'.pc = IF run.i + run.batchSize < Len(run.entries)
                          THEN "batch" ELSE "saveCursor"]_vars

\* The cursor is about to be saved after a run of two entries that wrote a
\* tombstone.
C21_Witness ==
    /\ run.pc = "saveCursor"
    /\ Len(run.entries) = 2
    /\ tombstone # run.tomb0
    /\ run.err = ""

\* C22: Fetch starts with the first ecosystem and goes from each ecosystem to
\* the next one whether it failed or not; it returns an error exactly when one
\* of them failed; the step that fails an ecosystem and the step to the next
\* ecosystem leave every table as it is.
C22_EveryEcosystemAttempted ==
    [][/\ (run.pc = "idle" /\ run'.pc # "idle")
          => (run'.pc = "ecosystem" /\ run'.idx = 1 /\ ~run'.lastErr)
       /\ (run.pc = "return")
          => /\ IF run.idx < Len(env.sources)
                THEN /\ run'.pc = "ecosystem"
                     /\ run'.idx = run.idx + 1
                     /\ run'.lastErr = (run.lastErr \/ run.err # "")
                ELSE /\ run'.pc = "idle"
                     /\ (run'.err # "") = (run.lastErr \/ run.err # "")
             /\ storeVars' = storeVars
       /\ (run.pc \notin {"idle", "return"})
          => (run'.idx = run.idx /\ run'.lastErr = run.lastErr)
       /\ (run.pc \notin {"idle", "return"} /\ run.err = "" /\ run'.err # "")
          => (run'.pc = "return" /\ storeVars' = storeVars)]_vars

\* The first ecosystem failed; the second one was processed after it and has
\* saved its first cursor.
C22_Witness ==
    /\ run.pc = "return"
    /\ run.idx = 2
    /\ run.lastErr
    /\ run.err = ""
    /\ run.cursor0 = NoCursor
    /\ source_cursor["Go"] # NoCursor

\* C23: DeleteVulnerabilitiesOlderThan is all or nothing.  While the call is
\* inside its transaction, and after it returned an error from any step, the
\* tables hold what they held when the call began; after it returned without
\* error both deletions are in the tables.
C23_DeleteAllOrNothing ==
    (run.op = "DeleteVulnerabilitiesOlderThan")
    => /\ (run.pc # "returned" \/ run.err # "")
          => /\ affected = run.atCall.affected
             /\ vulnerability = run.atCall.vulnerability
       /\ (run.pc = "returned" /\ run.err = "")
          => /\ affected = DeleteOldAffected(run.atCall.affected,
                                             run.atCall.vulnerability, run.cutoff)
             /\ vulnerability = DeleteOldVulnerability(run.atCall.vulnerability, run.cutoff)

\* The call failed at its second delete, after its first delete had removed an
\* Affected row inside the transaction.
C23_Witness ==
    /\ run.op = "DeleteVulnerabilitiesOlderThan"
    /\ run.pc = "returned"
    /\ run.err = "delete old vulnerabilities"
    /\ run.txAffected # run.atCall.affected
    /\ affected # {}

\* C24: a successful DeleteVulnerabilitiesOlderThan(C) leaves every
\* Vulnerability whose modified instant is at or after C, and every Affected
\* row of such a Vulnerability, in the store, and changes no Tombstone, cursor
\* or snapshot row.
C24_OnlyOlderRowsRemoved ==
    [][(last'.op = "DeleteVulnerabilitiesOlderThan" /\ last'.ok)
         => /\ \A id \in Ids :
                  (/\ vulnerability[id].present
                   /\ Parse(vulnerability[id].modified).t >= last'.cutoff.t)
                  => /\ vulnerability'[id] = vulnerability[id]
                     /\ \A a \in affected : a.vuln_id = id => a \in affected'
            /\ UNCHANGED <<tombstone, source_cursor, reported_snapshot>>]_vars

\* C25: SaveReportSnapshot(rows) is atomic.  While the call is inside its
\* transaction, and after it returned an error from any step, reported_snapshot
\* holds what it held when the call began; after it returned without error
\* the table holds the rows of the argument and no other row.  The call
\* changes no other table.
C25_SnapshotReplacedAtomically ==
    (run.op = "SaveReportSnapshot")
    => /\ (run.pc # "returned" \/ run.err # "")
          => reported_snapshot = run.atCall.reported_snapshot
       /\ (run.pc = "returned" /\ run.err = "")
          => reported_snapshot =
                {[id |-> run.entries[i].ID, ecosystem |-> run.entries[i].Ecosystem,
                  package |-> run.entries[i].Package,
                  published |-> run.entries[i].Published,
                  modified |-> run.entries[i].Modified,
                  severity_base_score |-> run.entries[i].SeverityBaseScore,
                  severity_vector |-> NullText] : i \in 1..Len(run.entries)}
       /\ affected = run.atCall.affected
       /\ vulnerability = run.atCall.vulnerability

\* The second insert of the call failed after the transaction had cleared the
\* table and inserted one row; the table holds the snapshot from before.
C25_Witness ==
    /\ run.op = "SaveReportSnapshot"
    /\ run.pc = "returned"
    /\ run.err = "insert snapshot entry"
    /\ Len(run.todo) = 1
    /\ run.atCall.reported_snapshot # {}
    /\ run.txSnapshot # run.atCall.reported_snapshot
    /\ reported_snapshot = run.atCall.reported_snapshot

\* C26: whatever the table holds, SaveVulnerability(v) leaves for v.ID a row
\* with the modified, published, score and vector of v, and leaves the other
\* rows as they are; the same call once more changes nothing.  Every row of
\* the table is the row of one of the calls.
C26_LastSaveWins ==
    /\ \A v \in CallerVulns :
          LET once == SaveVulnerability(vulnerability, v)
              twice == SaveVulnerability(once, v)
              row == once[v.ID]
          IN  /\ row.present
              /\ Parse(row.modified).t = FloorSec(v.Modified.t)
              /\ row.modified.z = v.Modified.z
              /\ row.published = (IF IsZero(v.Published) THEN EmptyText
                                  ELSE Format(v.Published))
              /\ row.severity_base_score.Valid = v.SeverityBaseScore.Valid
              /\ v.SeverityBaseScore.Valid
                 => row.severity_base_score.Float64 = v.SeverityBaseScore.Float64
              /\ (IF row.severity_vector = NullText THEN "" ELSE row.severity_vector)
                 = v.SeverityVector
              /\ \A id \in Ids \ {v.ID} : once[id] = vulnerability[id]
              /\ twice = once
    /\ \A id \in Ids :
          vulnerability[id].present
          => \E v \in CallerVulns :
                v.ID = id /\ SaveVulnerability(vulnerability, v) = vulnerability

\* GHSA-A is stored with the score and the vector of one of its versions; a
\* call with another version of it meets the row.
C26_Witness ==
    /\ run.pc = "idle"
    /\ vulnerability["GHSA-A"].present
    /\ vulnerability["GHSA-A"].severity_base_score = SomeFloat(98)
    /\ vulnerability["GHSA-B"].present
    /\ \E v \in CallerVulns :
          v.ID = "GHSA-A" /\ SaveVulnerability(vulnerability, v) # vulnerability

\* C27: SaveAffected and SaveTombstone return an error only when the storage
\* fails, also when the key is already in the table; after the call the table
\* holds the rows from before and the key of the call, and a key that was
\* there leaves the table as it was.  No other table changes.
C27_InsertOrIgnore ==
    (run.pc = "returned" /\ run.op \in {"SaveAffected", "SaveTombstone"})
    => LET tbl == IF run.op = "SaveAffected" THEN affected ELSE tombstone
           old == IF run.op = "SaveAffected" THEN run.atCall.affected
                  ELSE run.atCall.tombstone
       IN  /\ (run.err = "") = ~run.fault
           /\ (run.err = "") => tbl = old \cup {run.arg}
           /\ (run.err # "") => tbl = old
           /\ (run.arg \in old) => tbl = old
           /\ Cardinality(tbl) <= Cardinality(old) + 1
           /\ vulnerability = run.atCall.vulnerability
           /\ reported_snapshot = run.atCall.reported_snapshot
           /\ (run.op = "SaveAffected") => tombstone = run.atCall.tombstone
           /\ (run.op = "SaveTombstone") => affected = run.atCall.affected

\* SaveAffected was called with a key the table held already and returned no
\* error.
C27_Witness ==
    /\ run.pc = "returned"
    /\ run.op = "SaveAffected"
    /\ run.err = ""
    /\ run.arg \in run.atCall.affected
    /\ "GHSA-A" \in tombstone

C29_SitemapEntriesAfterCursor ==
    (run.pc = "sitemap")
    => \A doc \in Documents :
          LET c == run.lastCursor
              Wanted(u) == /\ u.valid
                           /\ u.id # ""
                           /\ (c.t = ZeroTime.t \/ u.lastmod.t > c.t)
              sel == SelectSeq(doc, Wanted)
          IN  parseSitemap(doc, c) =
                 [i \in 1..Len(sel) |-> [ID |-> sel[i].id, Modified |-> sel[i].lastmod]]

\* The cursor is stored, and a document lists an entry with the lastmod of the
\* cursor before a later one: only the later one is returned.
C29_Witness ==
    /\ run.pc = "sitemap"
    /\ ~IsZero(run.lastCursor)
    /\ \E doc \in Documents :
          /\ Len(doc) = 2
          /\ doc[1].valid /\ doc[1].id # "" /\ doc[1].lastmod.t = run.lastCursor.t
          /\ doc[2].valid /\ doc[2].id # "" /\ doc[2].lastmod.t > run.lastCursor.t
          /\ parseSitemap(doc, run.lastCursor) =
                <<[ID |-> doc[2].id, Modified |-> doc[2].lastmod]>>

\* C30: the entries a run works on, and so the entries a task sends a request
\* for, all have a modified instant after the retention cutoff of the run.
C30_NoRequestAtOrBeforeCutoff ==
    /\ \A i \in 1..Len(run.entries) : run.entries[i].Modified.t > run.cutoff.t
    /\ (run.pc = "batch")
       => \A k \in DOMAIN run.tasks :
             /\ run.i + k <= Len(run.entries)
             /\ TaskEntry(run, k).Modified.t > run.cutoff.t

\* The sitemap listed two entries after the cursor, one of them not after the
\* retention cutoff: the run fetches the other one only.
C30_Witness ==
    /\ run.pc = "batch"
    /\ Len(run.entries) = 1
    /\ \E k \in DOMAIN run.tasks : run.tasks[k].pc \in {"writing", "done"}
    /\ \E doc \in Documents :
          LET listed == parseSitemap(doc, run.lastCursor)
          IN  /\ Len(listed) = 2
              /\ listed[1].Modified.t <= run.cutoff.t
              /\ listed[2] = run.entries[1]

\* C31: GenerateReport with a format other than markdown, csv or jsonl returns
\* an error in every store state and for every combination of the other
\* options.  The code returns nil before it looks at the format when the query
\* yields no rows.
C31_UnknownFormatIsFatal ==
    \A diff \in BOOLEAN, ecosystem \in ReportFilters, fail \in ReportFails,
       format \in Formats \ KnownFormats :
        ReportError(diff, ecosystem, format, fail) # ""

\* ------------------------------------------------- severity of a response
\* One id, listed with the newest lastmod; the API answers with a record of one
\* affected package and any severity list: none, one element with any score
\* string, or a CVSS v4 element followed by a CVSS v3 one.
SeverityLists ==
    {<<>>} \cup {<<[Type |-> "CVSS_V3", Score |-> text]>> : text \in ScoreTexts}
           \cup {<<[Type |-> "CVSS_V4", Score |-> Cvss4],
                   [Type |-> "CVSS_V3", Score |-> CvssCritical]>>}

SeverityProfile(bs) ==
    [name |-> "severity", sources |-> Sources,
     batchSize |-> bs, ids |-> {"GHSA-A"}, lastmods |-> {Utc(MaxTime)},
     apiModified |-> {Utc(MaxTime)},
     apiAffected |-> {<<[Ecosystem |-> "npm", Name |-> "pkg"]>>},
     apiSeverity |-> SeverityLists]

SeverityInit ==
    /\ EmptyStore
    /\ local = "Z"
    /\ now = 0
    /\ last = NoCall
    /\ run = IdleRun
    /\ \E bs \in 1..MaxBatchSize : env = SeverityProfile(bs)

SpecSeverity == SeverityInit /\ [][FetchNext]_vars

\* The responses whose first score string, once trimmed, is neither empty nor
\* a CVSS v3 vector with a score nor a number.
ParseFailures(id) ==
    {vuln \in ApiVulns(id) :
        /\ Len(vuln.Severity) > 0
        /\ TrimSpace(vuln.Severity[1].Score) # ""
        /\ ~ParseVector(TrimSpace(vuln.Severity[1].Score)).ok}

\* The row saved for a response that cannot be parsed has a null score, and
\* as its vector the given string.
SavedWithVector(vuln, vector) ==
    LET row == AdapterSaveVulnerability(vulnerability, vuln)[vuln.ID]
    IN  /\ row.present
        /\ row.severity_vector = vector
        /\ row.severity_base_score = NullFloat

\* A task that has saved its Vulnerability row goes on to write the Affected
\* rows of the response.
AffectedWrittenAsUsual ==
    \A k \in DOMAIN run.tasks :
        run.tasks[k].pc = "writing" =>
            /\ vulnerability[TaskEntry(run, k).ID].present
            /\ run.tasks[k].todo \in env.apiAffected

C33_ScoreInRange ==
    \A id \in Ids :
        vulnerability[id].present =>
            \/ ~vulnerability[id].severity_base_score.Valid
            \/ /\ vulnerability[id].severity_base_score.Float64 >= 0
               /\ vulnerability[id].severity_base_score.Float64 <= 100

\* The snapshot rows of the ecosystems other than ecosystem.
SnapshotOfOthers(snap, ecosystem) == {r \in snap : r.ecosystem # ecosystem}

\* C34: a differential report filtered to an ecosystem changes the reported
\* status only of rows of that ecosystem: the snapshot rows of the other
\* ecosystems are the same after the report as before.  SaveReportSnapshot
\* deletes every row of reported_snapshot and inserts the rows of the filtered
\* ecosystem only.
C34_OtherEcosystemsKeepStatus ==
    [][(last'.op = "GenerateReport" /\ last'.diff /\ last'.ecosystem # "") =>
          SnapshotOfOthers(reported_snapshot', last'.ecosystem)
              = SnapshotOfOthers(reported_snapshot, last'.ecosystem)]_vars

\* The writes of a successful processEntry for id are in the store: a
\* Tombstone, or the Vulnerability row and the Affected rows of a response.
Fetched(id) ==
    \/ id \in tombstone
    \/ /\ vulnerability[id].present
       /\ \E response \in env.apiAffected :
             \A j \in 1..Len(response) :
                 [vuln_id |-> id, ecosystem |-> response[j].Ecosystem,
                  package |-> response[j].Name] \in affected

StoredPairs(tbl, id) ==
    {[Ecosystem |-> a.ecosystem, Name |-> a.package] : a \in {x \in tbl : x.vuln_id = id}}

\* The pairs a response lists.
ResponsePairs(response) == {response[j] : j \in 1..Len(response)}

\* C36: when a vulnerability has been fetched again, the Affected rows stored
\* for its id are exactly the pairs of the latest response.  Entries are
\* fetched one after the other here (batches of one), so that the latest
\* response is the one of the task that ends: an empty one when the task ends
\* with SaveVulnerability, a listed one when it ends with its last
\* SaveAffected.  SaveAffected only inserts, and nothing deletes the rows of a
\* pair that is no longer listed.
C36_AffectedAreLatestResponse ==
    [][\A k \in DOMAIN run.tasks :
          (/\ run.batchSize = 1
           /\ run.pc = "batch"
           /\ run'.pc = "batch"
           /\ k \in DOMAIN run'.tasks
           /\ run.tasks[k].pc \in {"ready", "writing"}
           /\ run'.tasks[k].pc = "done") =>
              StoredPairs(affected', TaskEntry(run, k).ID) =
                  IF run.tasks[k].pc = "ready" THEN {}
                  ELSE CHOOSE pairs \in {ResponsePairs(response) :
                                            response \in env.apiAffected \ {<<>>}} : TRUE]_vars

\* ------------------------------------------------ reports between fetch runs
\* One id, listed with the newest lastmod; the API answers with an old or a
\* recent record of one affected package.  Reports are generated at any moment
\* of the run.
FetchReportProfile ==
    [name |-> "fetchreport", sources |-> Sources,
     batchSize |-> 1, ids |-> {"GHSA-A"}, lastmods |-> {Utc(MaxTime)},
     apiModified |-> {Utc(0), Utc(MaxTime)},
     apiAffected |-> {<<[Ecosystem |-> "npm", Name |-> "pkg"]>>},
     apiSeverity |-> {<<>>}]

FetchReportInit ==
    /\ EmptyStore
    /\ local = "Z"
    /\ now = 0
    /\ last = NoCall
    /\ run = IdleRun
    /\ env = FetchReportProfile

FetchReportNext ==
    \/ FetchNext
    \/ GenerateReport

SpecFetchReport == FetchReportInit /\ [][FetchReportNext]_vars

\* C37: reported_snapshot changes only in a differential report that has
\* written its output and returns nil: a report that is not differential, one
\* that returns early or with an error, and every step of a fetch run, its
\* retention prune included, leave the snapshot as it was.
C37_SnapshotOnlyByDifferentialReport ==
    [][/\ reported_snapshot' # reported_snapshot =>
             /\ run' = run
             /\ last'.op = "GenerateReport"
             /\ last'.diff
             /\ last'.ok
             /\ last'.emitted > 0
       /\ (run' # run \/ vulnerability' # vulnerability \/ affected' # affected) =>
             reported_snapshot' = reported_snapshot]_vars

\* The retention prune of a run has removed a row that the snapshot of an
\* earlier differential report still holds.
C37_Witness ==
    /\ run.pc = "return"
    /\ run.err = ""
    /\ reported_snapshot # {}
    /\ ~vulnerability["GHSA-A"].present
    /\ affected = {}
    /\ last.op = "GenerateReport"

\* ------------------------------------- a report while the store is written
\* GenerateReport in its two halves, with the writes of another process (a
\* fetch run on the same database file) before, between and after them.
ReportStepsProfile ==
    [name |-> "reportsteps",
     batchSize |-> 1, ids |-> {}, lastmods |-> {}, apiModified |-> {}, apiAffected |-> {}]

\* No report is running.
IdleReport ==
    [pc |-> "idle", diff |-> FALSE, ecosystem |-> "", emitted |-> {}, snapshot0 |-> {}]

\* GenerateReport up to the written output: the first query, the early
\* returns, the switch on the format and the writer.  A differential report
\* goes on to its second query.
ReportWrite ==
    /\ run.pc = "idle"
    /\ \E diff \in BOOLEAN, ecosystem \in ReportFilters, format \in Formats,
          fail \in {"none", "query", "write"} :
          LET entries == ReportEntries(diff, ecosystem)
              err == ReportError(diff, ecosystem, format, fail)
              written == fail = "none" /\ entries # {} /\ format \in KnownFormats
          IN  /\ run' = IF written /\ diff
                        THEN [pc |-> "written", diff |-> diff, ecosystem |-> ecosystem,
                              emitted |-> entries, snapshot0 |-> reported_snapshot]
                        ELSE IdleReport
              /\ last' = [op |-> "GenerateReport", ok |-> err = "", diff |-> diff,
                          ecosystem |-> ecosystem,
                          emitted |-> IF written THEN Cardinality(entries) ELSE 0]
    /\ UNCHANGED <<storeVars, local, now, env>>

\* GenerateReport from the second query on: GetVulnerabilitiesForReport, then
\* SaveReportSnapshot.
ReportSnapshot ==
    /\ run.pc = "written"
    /\ \E fail \in {"none", "queryAll", "snapshot"} :
          LET allEntries == GetVulnerabilitiesForReport(vulnerability, affected,
                                                        run.ecosystem)
          IN  /\ reported_snapshot' =
                    IF fail = "none"
                    THEN SaveReportSnapshot(SnapshotSource(run.emitted, allEntries))
                    ELSE reported_snapshot
              /\ last' = [last EXCEPT !.ok = (fail = "none")]
    /\ run' = IdleReport
    /\ UNCHANGED <<vulnerability, affected, tombstone, source_cursor, local, now, env>>

ReportStepsInit ==
    /\ EmptyStore
    /\ local = "Z"
    /\ now = 0
    /\ last = NoCall
    /\ run = IdleReport
    /\ env = ReportStepsProfile

ReportStepsNext ==
    \/ CallSaveVulnerability
    \/ CallSaveAffected
    \/ ReportWrite
    \/ ReportSnapshot

SpecReportSteps == ReportStepsInit /\ [][ReportStepsNext]_vars

\* The snapshot row r is the version of a row that the report has emitted, or
\* the version the snapshot held when the report started.
EmittedOrKnown(r, emitted, snapshot0) ==
    \/ \E e \in emitted : SnapshotRow(e) = r
    \/ \E r0 \in snapshot0 :
          /\ r0.id = r.id /\ r0.ecosystem = r.ecosystem /\ r0.package = r.package
          /\ r0.modified = r.modified
          /\ r0.severity_base_score = r.severity_base_score
          /\ r0.severity_vector = r.severity_vector

\* C38: every row version that a differential report stores in
\* reported_snapshot was written to the output of that report or was in the
\* snapshot, with the same modified, base score and vector, when the report
\* started, also when another process writes the store between the two
\* queries of the report.  The snapshot is taken from the second query, which
\* sees what was written after the first.
C38_SnapshotOnlyOfEmitted ==
    [][(run.pc = "written" /\ run'.pc = "idle") =>
          \A r \in reported_snapshot' :
              EmittedOrKnown(r, run.emitted, run.snapshot0)]_vars

\* ------------------------------------- one batch, in parallel and in sequence
\* ProcessEntriesParallel is called once, with n as maxConcurrency, on one or
\* two entries of two ids.  The API has one answer for each id: 404, or a
\* record without, with one or with two affected packages.  The store is
\* empty, or holds what an earlier run has left.
NpmPkg == [Ecosystem |-> "npm", Name |-> "pkg"]
GoPkg == [Ecosystem |-> "Go", Name |-> "pkg"]
ApiAnswers ==
    {[status |-> "404", affected |-> <<>>]}
        \cup {[status |-> "200", affected |-> aff] :
                 aff \in {<<>>, <<NpmPkg>>, <<NpmPkg, GoPkg>>}}

EarlierStores ==
    {[vulnerability |-> [id \in Ids |-> NoRow], affected |-> {}, tombstone |-> {}],
     [vulnerability |->
          SaveVulnerability([id \in Ids |-> NoRow],
                            [ID |-> "GHSA-A", Modified |-> Utc(0), Published |-> ZeroTime,
                             SeverityBaseScore |-> NullFloat, SeverityVector |-> ""]),
      affected |-> {[vuln_id |-> "GHSA-A", ecosystem |-> "Go", package |-> "pkg"]},
      tombstone |-> {}]}

PoolProfile(n, api, store0) ==
    [name |-> "pool", concurrency |-> n, api |-> api, store0 |-> store0,
     batchSize |-> MaxUrls, ids |-> Ids, lastmods |-> {Utc(MaxTime)},
     apiModified |-> {Utc(MaxTime)},
     apiAffected |-> {<<>>, <<NpmPkg>>, <<NpmPkg, GoPkg>>},
     apiSeverity |-> {<<>>}]

PoolInit ==
    /\ local = "Z"
    /\ now = 0
    /\ last = NoCall
    /\ run = IdlePool
    /\ source_cursor = [s \in Ecosystems |-> NoCursor]
    /\ reported_snapshot = {}
    /\ \E n \in 1..MaxConcurrency, api \in [Ids -> ApiAnswers], store0 \in EarlierStores :
          /\ env = PoolProfile(n, api, store0)
          /\ vulnerability = store0.vulnerability
          /\ affected = store0.affected
          /\ tombstone = store0.tombstone

\* The one call of the run.
CallOnce == run.pc = "idle" /\ CallProcessEntriesParallel

\* No answer is a 429, so that no call waits in a backoff.
PoolNext ==
    \/ CallOnce
    \/ CancelContext
    \/ Refill
    \/ \E k \in 1..MaxUrls : Acquire(k)
    \/ \E k \in 1..MaxUrls : LimiterWait(k)
    \/ \E k \in 1..MaxUrls : Respond(k)
    \/ \E k \in 1..MaxUrls : StoreTombstone(k)
    \/ \E k \in 1..MaxUrls : StoreVulnerability(k)
    \/ \E k \in 1..MaxUrls : StoreAffected(k)
    \/ ReturnParallel

SpecPool == PoolInit /\ [][PoolNext]_vars

\* The loop of processEntry over vuln.Affected, every SaveAffected succeeding.
RECURSIVE SaveAllAffected(_, _, _)
SaveAllAffected(tbl, id, todo) ==
    IF todo = <<>> THEN tbl
    ELSE SaveAllAffected(
             SaveAffected(tbl, [vuln_id |-> id, ecosystem |-> Head(todo).Ecosystem,
                                package |-> Head(todo).Name]),
             id, Tail(todo))

\* processEntry when every call of it succeeds, on the tables st.
processEntry(st, entry) ==
    IF env.api[entry.ID].status = "404"
    THEN [st EXCEPT !.tombstone = SaveTombstone(@, entry.ID)]
    ELSE LET vuln == CHOOSE v \in ApiVulns(entry.ID) : TRUE
         IN  [st EXCEPT !.vulnerability = AdapterSaveVulnerability(@, vuln),
                        !.affected = SaveAllAffected(@, entry.ID, vuln.Affected)]

\* ProcessEntries: processEntry for each entry, in the order of the slice.
RECURSIVE ProcessEntries(_, _)
ProcessEntries(st, entries) ==
    IF entries = <<>> THEN st
    ELSE ProcessEntries(processEntry(st, Head(entries)), Tail(entries))

\* C39: when every entry of the batch has succeeded and the API has one answer
\* for each id, the store after ProcessEntriesParallel(entries, n) is, for
\* every n and every interleaving of the tasks, the store after the sequential
\* ProcessEntries(entries).
C39_ParallelEqualsSequential ==
    (run.pc = "returned" /\ run.err = "") =>
        [vulnerability |-> vulnerability, affected |-> affected, tombstone |-> tombstone]
            = ProcessEntries(env.store0, run.entries)

\* Two tasks for two ids have run with two slots on a store that was not
\* empty: one has replaced a row and added Affected rows, the other has
\* written a Tombstone.
C39_Witness ==
    /\ run.pc = "returned"
    /\ run.err = ""
    /\ env.concurrency = 2
    /\ Len(run.entries) = 2
    /\ run.entries[1].ID # run.entries[2].ID
    /\ env.store0.affected # {}
    /\ Cardinality(affected) = 2
    /\ vulnerability["GHSA-A"] # env.store0.vulnerability["GHSA-A"]
    /\ tombstone = {"GHSA-B"}

\* ------------------------------------------- the configuration of a fetch
defaultMaxConcurrency == 5
defaultBatchSize == 100

\* What OSV_MAX_CONCURRENCY and OSV_BATCH_SIZE can hold: nothing, zero, a
\* negative number, no number, a number beyond the range of int, and numbers.
EnvTexts == {"", "0", "-1", "abc", "99999999999999999999", "1", "2"}

\* strconv.Atoi
Atoi(str) ==
    CASE str = "0" -> [ok |-> TRUE, val |-> 0]
      [] str = "-1" -> [ok |-> TRUE, val |-> 0 - 1]
      [] str = "1" -> [ok |-> TRUE, val |-> 1]
      [] str = "2" -> [ok |-> TRUE, val |-> 2]
      [] OTHER -> [ok |-> FALSE, val |-> 0]

\* A getEnvInt that takes every number.
getEnvIntAnyNumber(str, defaultValue) ==
    IF str # "" /\ Atoi(str).ok THEN Atoi(str).val ELSE defaultValue

\* `if val, err := strconv.Atoi(str); err == nil && val > 0 { return val }`
getEnvInt(str, defaultValue) ==
    IF str # "" /\ Atoi(str).ok /\ Atoi(str).val > 0 THEN Atoi(str).val ELSE defaultValue

\* config.Load for the two variables; one id, listed with the newest lastmod,
\* and a record of one affected package.
ConfigProfile(batchText, concurrencyText) ==
    [name |-> "config", sources |-> Sources,
     OSV_BATCH_SIZE |-> batchText, OSV_MAX_CONCURRENCY |-> concurrencyText,
     batchSize |-> getEnvInt(batchText, defaultBatchSize),
     maxConcurrency |-> getEnvInt(concurrencyText, defaultMaxConcurrency),
     ids |-> {"GHSA-A"}, lastmods |-> {Utc(MaxTime)},
     apiModified |-> {Utc(MaxTime)},
     apiAffected |-> {<<NpmPkg>>},
     apiSeverity |-> {<<>>}]

ConfigInit ==
    /\ EmptyStore
    /\ local = "Z"
    /\ now = 0
    /\ last = NoCall
    /\ run = IdleRun
    /\ \E batchText \in EnvTexts, concurrencyText \in EnvTexts :
          env = ConfigProfile(batchText, concurrencyText)

\* Every goroutine of the group is scheduled again, the HTTP client's Timeout
\* bounds a request and SQLite's busy timeout a write; the batch loop runs on
\* when g.Wait has returned.
ConfigFairness ==
    /\ \A k \in 1..MaxBatchSize :
          /\ WF_vars(ProcessEntry(k))
          /\ WF_vars(ProcessEntryAffected(k))
    /\ WF_vars(WaitBatch)

SpecConfigLive == ConfigInit /\ [][FetchNext]_vars /\ ConfigFairness

\* A task of the batch can take a step: it holds a slot, or it waits for one
\* and one is free.
CanStep(r) ==
    \E k \in DOMAIN r.tasks :
        \/ r.tasks[k].pc = "writing"
        \/ r.tasks[k].pc = "ready" /\ Cardinality(Running(r)) < Concurrency

\* C40: for every value of OSV_MAX_CONCURRENCY and OSV_BATCH_SIZE, the batch
\* size and the capacity of the semaphore that config.Load gives are at least
\* 1; in a batch no more tasks hold a slot than the semaphore has, and while a
\* task has not ended some task can take a step; a task that holds a slot gives
\* it back, and the batch loop comes to its end.
C40_BatchLoopTerminates ==
    /\ [](/\ env.batchSize >= 1
          /\ env.maxConcurrency >= 1
          /\ run.pc = "batch" =>
                /\ run.batchSize >= 1
                /\ Cardinality(Running(run)) <= Concurrency
                /\ ~Finished(run) => CanStep(run))
    /\ \A k \in 1..MaxBatchSize :
          (run.pc = "batch" /\ k \in DOMAIN run.tasks /\ run.tasks[k].pc = "writing")
              ~> ~(run.pc = "batch" /\ k \in DOMAIN run.tasks /\ run.tasks[k].pc = "writing")
    /\ (run.pc = "batch") ~> (run.pc \in {"saveCursor", "return"})

\* With OSV_BATCH_SIZE=0 and OSV_MAX_CONCURRENCY=-1 the defaults are in
\* force, and a run has gone through its batch.
C40_Witness ==
    /\ env.OSV_BATCH_SIZE = "0"
    /\ env.OSV_MAX_CONCURRENCY = "-1"
    /\ env.batchSize = defaultBatchSize
    /\ env.maxConcurrency = defaultMaxConcurrency
    /\ run.pc = "saveCursor"
    /\ Len(run.entries) = MaxUrls

====
